---- MODULE Spec2Model ----
(***************************************************************************)
(* A model of loxido: the bytecode VM (src/src/vm.rs) on top of the        *)
(* index-based allocator with its mark-and-sweep collector                 *)
(* (src/src/allocator.rs), and the command-line driver (src/src/main.rs).  *)
(*                                                                         *)
(* Heap handles are the Rust indices into Allocator::objects (0-based);    *)
(* the TLA+ sequence `objects` is 1-based, so handle h is objects[h + 1].  *)
(***************************************************************************)
EXTENDS Integers, Sequences, FiniteSets, TLC

(***************************************************************************)
(* Generic helpers on sequences and sets.                                  *)
(***************************************************************************)
Last(s) == s[Len(s)]

Front(s) == SubSeq(s, 1, Len(s) - 1)

Range(s) == {s[i] : i \in DOMAIN s}

Min(S) == CHOOSE x \in S : \A y \in S : x <= y

RECURSIVE SortedSeq(_)
SortedSeq(S) == IF S = {} THEN <<>> ELSE <<Min(S)>> \o SortedSeq(S \ {Min(S)})

(***************************************************************************)
(* Value (chunk.rs).  f64 numbers are modelled as exact rationals n/d plus *)
(* the three non-finite classes; the sign of zero is not modelled.         *)
(***************************************************************************)
Nil == [k |-> "Nil"]

Bool(b) == [k |-> "Bool", b |-> b]

Fin(n, d) == [k |-> "Number", s |-> "fin", n |-> n, d |-> d]

Num(n) == Fin(n, 1)

NaN == [k |-> "Number", s |-> "nan", n |-> 0, d |-> 1]

Inf(sign) == [k |-> "Number", s |-> IF sign > 0 THEN "pinf" ELSE "ninf", n |-> 0, d |-> 1]

Ref(kind, h) == [k |-> kind, h |-> h]

NativeFunction(f) == [k |-> "NativeFunction", f |-> f]

RefKinds == {"BoundMethod", "Class", "Closure", "Function", "Instance", "String"}

IsRef(v) == v.k \in RefKinds

is_falsey(v) == IF v.k = "Nil" THEN TRUE ELSE IF v.k = "Bool" THEN ~v.b ELSE FALSE

None == [some |-> FALSE]

Some(v) == [some |-> TRUE, v |-> v]

(***************************************************************************)
(* Heap objects (function.rs, class.rs) and the allocator's slot header.   *)
(***************************************************************************)
Empty == [t |-> "Empty"]

StringObj(s) == [t |-> "String", s |-> s]

ObjUpvalue(location) == [t |-> "Upvalue", location |-> location, closed |-> None]

LoxFunction(arity, chunk, constants, name, upvalues) ==
  [t |-> "Function", arity |-> arity, chunk |-> chunk, constants |-> constants,
   name |-> name, upvalues |-> upvalues]

Closure(function) == [t |-> "Closure", function |-> function, upvalues |-> <<>>]

LoxClass(name) == [t |-> "Class", name |-> name, methods |-> <<>>]

Instance(class) == [t |-> "Instance", class |-> class, fields |-> <<>>]

BoundMethod(receiver, method) ==
  [t |-> "BoundMethod", receiver |-> receiver, method |-> method]

\* Value kind of a handle to an object of type t.
KindOf(t) == t

ObjHeaderEmpty == [is_marked |-> FALSE, size |-> 0, obj |-> Empty]

\* mem::size_of::<ObjHeader>() on a 64-bit target: bool, usize, Box<dyn Trace>.
HeaderSize == 32

\* Trace::size, with the length of a vector standing for its capacity.
SizeOf(obj) ==
  CASE obj.t = "Empty" -> 0
    [] obj.t = "String" -> 24 + Len(obj.s)
    [] obj.t = "Upvalue" -> 24
    [] obj.t = "Function" -> 104 + 2 * Len(obj.upvalues) + 24 * Len(obj.constants)
    [] obj.t = "Closure" -> 32 + 8 * Len(obj.upvalues)
    [] obj.t = "Class" -> 56
    [] obj.t = "Instance" -> 56
    [] obj.t = "BoundMethod" -> 24

(***************************************************************************)
(* Tables (chunk.rs: HashMap<Reference<String>, Value>) are finite         *)
(* functions from string handles to values; <<>> is the empty table.       *)
(***************************************************************************)
TableInsert(t, key, v) == (key :> v) @@ t

TableRemove(t, key) == [x \in DOMAIN t \ {key} |-> t[x]] @@ <<>>

TableHas(t, key) == key \in DOMAIN t

(***************************************************************************)
(* Allocator (allocator.rs).  `a` is a record holding the allocator's      *)
(* fields; every operator returns the allocator after the call.            *)
(***************************************************************************)
NextGcInit == 1048576

GC_HEAP_GROW_FACTOR == 2

AllocatorNew ==
  [bytes_allocated |-> 0, next_gc |-> NextGcInit, free_slots |-> <<>>,
   objects |-> <<>>, strings |-> <<>>, grey_stack |-> <<>>]

\* Allocator::alloc: the allocator after the call and the index it returned.
AllocIndex(a) == IF a.free_slots # <<>> THEN Last(a.free_slots) ELSE Len(a.objects)

\* An alloc that reuses the last free slot and leaves it in free_slots.
AllocatorAllocKeepsSlot(a, object) ==
  LET size == SizeOf(object) + HeaderSize
      entry == [is_marked |-> FALSE, size |-> size, obj |-> object]
  IN  IF a.free_slots # <<>>
        THEN [a EXCEPT !.bytes_allocated = @ + size,
                       !.objects[Last(a.free_slots) + 1] = entry]
        ELSE [a EXCEPT !.bytes_allocated = @ + size,
                       !.objects = Append(@, entry)]

AllocatorAlloc(a, object) ==
  LET size == SizeOf(object) + HeaderSize
      entry == [is_marked |-> FALSE, size |-> size, obj |-> object]
  IN  IF a.free_slots # <<>>
        THEN [a EXCEPT !.bytes_allocated = @ + size,
                       !.objects[Last(a.free_slots) + 1] = entry,
                       !.free_slots = Front(@)]
        ELSE [a EXCEPT !.bytes_allocated = @ + size,
                       !.objects = Append(@, entry)]

\* Allocator::intern: the handle returned, and the allocator after the call.
InternIndex(a, name) == IF name \in DOMAIN a.strings THEN a.strings[name] ELSE AllocIndex(a)

\* An intern that allocates without looking the contents up.
AllocatorInternAlways(a, name) ==
  LET reference == AllocIndex(a)
      a1 == AllocatorAlloc(a, StringObj(name))
  IN  [a1 EXCEPT !.strings = TableInsert(@, name, reference)]

AllocatorIntern(a, name) ==
  IF name \in DOMAIN a.strings
    THEN a
    ELSE LET reference == AllocIndex(a)
             a1 == AllocatorAlloc(a, StringObj(name))
         IN  [a1 EXCEPT !.strings = TableInsert(@, name, reference)]

\* Allocator::free
AllocatorFree(a, index) ==
  [a EXCEPT !.bytes_allocated = @ - a.objects[index + 1].size,
            !.objects[index + 1] = ObjHeaderEmpty,
            !.free_slots = Append(@, index)]

\* Allocator::mark_object
MarkObject(a, index) ==
  IF a.objects[index + 1].is_marked
    THEN a
    ELSE [a EXCEPT !.objects[index + 1].is_marked = TRUE,
                   !.grey_stack = Append(@, index)]

\* Allocator::mark_value with Value::trace (chunk.rs)
MarkValue(a, v) == IF IsRef(v) THEN MarkObject(a, v.h) ELSE a

\* mark_value over a slice of values and mark_object over a list of handles, in
\* order; the test of mark_object (already marked: nothing to do) comes first.
RECURSIVE MarkValues(_, _)
MarkValues(a, vs) ==
  IF vs = <<>>
    THEN a
    ELSE IF IsRef(vs[1]) /\ ~a.objects[vs[1].h + 1].is_marked
      THEN MarkValues(MarkValue(a, vs[1]), SubSeq(vs, 2, Len(vs)))
      ELSE MarkValues(a, SubSeq(vs, 2, Len(vs)))

RECURSIVE MarkObjects(_, _)
MarkObjects(a, hs) ==
  IF hs = <<>>
    THEN a
    ELSE IF ~a.objects[hs[1] + 1].is_marked
      THEN MarkObjects(MarkObject(a, hs[1]), SubSeq(hs, 2, Len(hs)))
      ELSE MarkObjects(a, SubSeq(hs, 2, Len(hs)))

\* Allocator::mark_table.  HashMap iteration order is unspecified; the set of
\* objects marked does not depend on it, and the keys are visited in ascending
\* order here.
RECURSIVE MarkTableKeys(_, _, _)
MarkTableKeys(a, table, keys) ==
  IF keys = <<>>
    THEN a
    ELSE MarkTableKeys(MarkValue(MarkObject(a, keys[1]), table[keys[1]]),
                       table, SubSeq(keys, 2, Len(keys)))

MarkTable(a, table) == MarkTableKeys(a, table, SortedSeq(DOMAIN table))

\* Trace::trace of each object type (allocator.rs, function.rs, class.rs).
TraceObject(a, obj) ==
  CASE obj.t = "String" -> a
    [] obj.t = "Empty" -> a
    [] obj.t = "Upvalue" -> IF obj.closed.some THEN MarkValue(a, obj.closed.v) ELSE a
    [] obj.t = "Function" -> MarkValues(MarkObject(a, obj.name), obj.constants)
    [] obj.t = "Closure" -> MarkObjects(MarkObject(a, obj.function), obj.upvalues)
    [] obj.t = "Class" -> MarkTable(MarkObject(a, obj.name), obj.methods)
    [] obj.t = "Instance" -> MarkTable(MarkObject(a, obj.class), obj.fields)
    [] obj.t = "BoundMethod" -> MarkObject(MarkValue(a, obj.receiver), obj.method)

\* Allocator::blacken_object: the slot holds an unmarked Empty placeholder
\* while the object is traced, and gets the object back afterwards.
BlackenObject(a, index) ==
  LET header == a.objects[index + 1]
      a1 == [a EXCEPT !.objects[index + 1] = ObjHeaderEmpty]
      a2 == TraceObject(a1, header.obj)
  IN  [a2 EXCEPT !.objects[index + 1] = header]

\* Allocator::trace_references.  The loop of the code has no bound.  An object
\* is pushed on the grey stack when its slot goes from unmarked to marked, so
\* a run that blackens more objects than there are slots has blackened one
\* slot twice, which only happens when the object marks its own (placeholder)
\* slot, and then it does so again on every later visit: the loop never ends.
\* `fuel` counts the visits left; done = FALSE reports the endless loop.
RECURSIVE TraceReferences(_, _)
TraceReferences(a, fuel) ==
  IF a.grey_stack = <<>>
    THEN [done |-> TRUE, a |-> a]
    ELSE IF fuel = 0
      THEN [done |-> FALSE, a |-> a]
      ELSE LET index == Last(a.grey_stack)
               a1 == [a EXCEPT !.grey_stack = Front(@)]
           IN  TraceReferences(BlackenObject(a1, index), fuel - 1)

\* A remove_white_strings that keeps the entries of the unmarked strings.
RemoveWhiteStringsKeepsAll(a) == a

\* Allocator::remove_white_strings
RemoveWhiteStrings(a) ==
  [a EXCEPT !.strings =
     [s \in {x \in DOMAIN a.strings : a.objects[a.strings[x] + 1].is_marked}
        |-> a.strings[s]] @@ <<>>]

\* Allocator::sweep, slot by slot from index i.
RECURSIVE SweepFrom(_, _)
SweepFrom(a, i) ==
  IF i >= Len(a.objects)
    THEN a
    ELSE IF a.objects[i + 1].obj.t = "Empty"
      THEN SweepFrom(a, i + 1)
      ELSE IF a.objects[i + 1].is_marked
        THEN SweepFrom([a EXCEPT !.objects[i + 1].is_marked = FALSE], i + 1)
        ELSE SweepFrom(AllocatorFree(a, i), i + 1)

\* A sweep that leaves the first slot as the mark phase left it.
SweepSkipsFirst(a) == SweepFrom(a, 1)

Sweep(a) == SweepFrom(a, 0)

\* Allocator::collect_garbage; done = FALSE when trace_references never ends.
CollectGarbage(a) ==
  LET Swept(a1) ==
        [done |-> TRUE,
         a |-> [a1 EXCEPT !.next_gc = a1.bytes_allocated * GC_HEAP_GROW_FACTOR]]
      Traced(traced) ==
        IF ~traced.done
          THEN [done |-> FALSE, a |-> traced.a]
          ELSE Swept(Sweep(RemoveWhiteStrings(traced.a)))
  IN  Traced(TraceReferences(a, Len(a.objects) + 1))

\* Allocator::should_gc under the two builds (feature debug_stress_gc).
ShouldGc(a, stress) == IF stress THEN TRUE ELSE a.bytes_allocated > a.next_gc

(***************************************************************************)
(* f64 arithmetic and comparison: binary_op's closures and Value's derived *)
(* PartialEq on Number (vm.rs, chunk.rs).                                   *)
(***************************************************************************)
Abs(n) == IF n < 0 THEN -n ELSE n

RECURSIVE Gcd(_, _)
Gcd(m, n) == IF n = 0 THEN m ELSE Gcd(n, m % n)

Norm(n, d) ==
  LET g == Gcd(Abs(n), Abs(d))
      sg == IF d < 0 THEN -1 ELSE 1
  IN  Fin((sg * n) \div g, (sg * d) \div g)

Sign(x) ==
  CASE x.s = "pinf" -> 1
    [] x.s = "ninf" -> -1
    [] x.s = "fin" -> IF x.n > 0 THEN 1 ELSE IF x.n < 0 THEN -1 ELSE 0
    [] x.s = "nan" -> 0

NumNeg(x) ==
  CASE x.s = "fin" -> Fin(-x.n, x.d)
    [] x.s = "pinf" -> Inf(-1)
    [] x.s = "ninf" -> Inf(1)
    [] x.s = "nan" -> NaN

NumAdd(x, y) ==
  IF x.s = "nan" \/ y.s = "nan" THEN NaN
  ELSE IF x.s = "fin" /\ y.s = "fin" THEN Norm(x.n * y.d + y.n * x.d, x.d * y.d)
  ELSE IF x.s = "fin" THEN y
  ELSE IF y.s = "fin" THEN x
  ELSE IF x.s = y.s THEN x ELSE NaN

NumSub(x, y) == NumAdd(x, NumNeg(y))

NumMul(x, y) ==
  IF x.s = "nan" \/ y.s = "nan" THEN NaN
  ELSE IF x.s = "fin" /\ y.s = "fin" THEN Norm(x.n * y.n, x.d * y.d)
  ELSE IF Sign(x) * Sign(y) = 0 THEN NaN
  ELSE Inf(Sign(x) * Sign(y))

NumDiv(x, y) ==
  IF x.s = "nan" \/ y.s = "nan" THEN NaN
  ELSE IF x.s = "fin" /\ y.s = "fin"
    THEN IF y.n # 0 THEN Norm(x.n * y.d, x.d * y.n)
         ELSE IF x.n = 0 THEN NaN ELSE Inf(Sign(x))
  ELSE IF x.s = "fin" THEN Fin(0, 1)
  ELSE IF y.s = "fin" THEN Inf(IF Sign(y) < 0 THEN -Sign(x) ELSE Sign(x))
  ELSE NaN

NumLess(x, y) ==
  IF x.s = "nan" \/ y.s = "nan" THEN FALSE
  ELSE IF x.s = "fin" /\ y.s = "fin" THEN x.n * y.d < y.n * x.d
  ELSE Sign(IF x.s = "fin" THEN Fin(0, 1) ELSE x) < Sign(IF y.s = "fin" THEN Fin(0, 1) ELSE y)

NumGreater(x, y) == NumLess(y, x)

NumEq(x, y) == x.s # "nan" /\ y.s # "nan" /\ x = y

\* impl PartialEq for NativeFn (function.rs): std::ptr::eq(self, other)
\* compares the addresses of the two NativeFn values being compared, not the
\* function pointers they hold.  same_place says whether both operands are
\* the same place in memory.
NativeFnEq(x, y, same_place) == same_place

\* #[derive(PartialEq)] on Value (chunk.rs), for two values held in two
\* different places (two locals, two stack slots).
ValueEq(x, y) ==
  IF x.k # y.k THEN FALSE
  ELSE CASE x.k = "Nil" -> TRUE
         [] x.k = "Bool" -> x.b = y.b
         [] x.k = "Number" -> NumEq(x, y)
         [] x.k = "NativeFunction" -> NativeFnEq(x.f, y.f, FALSE)
         [] OTHER -> x.h = y.h

(***************************************************************************)
(* Compiled programs.  Each program is the output of compile (compiler.rs) *)
(* on the Lox source given in the comment above it: `events` are the calls *)
(* the compiler makes on the allocator, in order (intern of a lexeme,      *)
(* alloc of a finished function), and `fns` are the functions in the order *)
(* they are allocated, the script last.  A constant is a number, a string  *)
(* (the handle intern returned for that text) or a function (the handle    *)
(* alloc returned for it).                                                 *)
(***************************************************************************)
I(op, a, b) == [op |-> op, a |-> a, b |-> b]

KNum(n, d) == [c |-> "num", n |-> n, d |-> d, s |-> ""]

KStr(s) == [c |-> "str", n |-> 0, d |-> 1, s |-> s]

KFn(fid) == [c |-> "fn", n |-> fid, d |-> 1, s |-> ""]

Upv(index, is_local) == [index |-> index, is_local |-> is_local]

EvIntern(s) == [e |-> "intern", s |-> s, f |-> 0]

EvAlloc(fid) == [e |-> "alloc", s |-> "", f |-> fid]

\* var g; var s; fun make() { var x = 1; fun get() { return x; } fun set(v) { x = v; } g = get; s = set; s(2); print x; print g(); } make(); s(3); print g();
P_share_return ==
  [name |-> "P_share_return", had_error |-> FALSE,
   events |-> <<EvIntern("g"), EvIntern("s"), EvIntern("make"), EvIntern("make"),
               EvIntern("get"), EvAlloc(1), EvIntern("set"), EvAlloc(2),
               EvIntern("g"), EvIntern("s"), EvIntern("s"), EvIntern("g"),
               EvAlloc(3), EvIntern("make"), EvIntern("s"), EvIntern("g"),
               EvAlloc(4)>>,
   fns |-> <<[arity |-> 0, name |-> "get", script |-> FALSE,
      upvalues |-> <<Upv(1, TRUE)>>,
      constants |-> <<>>,
      code |-> <<I("GetUpvalue", 0, 0), I("Return", 0, 0), I("Nil", 0, 0),
                  I("Return", 0, 0)>>],
     [arity |-> 1, name |-> "set", script |-> FALSE,
      upvalues |-> <<Upv(1, TRUE)>>,
      constants |-> <<>>,
      code |-> <<I("GetLocal", 1, 0), I("SetUpvalue", 0, 0), I("Pop", 0, 0),
                  I("Nil", 0, 0), I("Return", 0, 0)>>],
     [arity |-> 0, name |-> "make", script |-> FALSE,
      upvalues |-> <<>>,
      constants |-> <<KNum(1, 1), KFn(1), KFn(2), KStr("g"),
                       KStr("s"), KStr("s"), KNum(2, 1), KStr("g")>>,
      code |-> <<I("Constant", 0, 0), I("Closure", 1, 0), I("Closure", 2, 0),
                  I("GetLocal", 2, 0), I("SetGlobal", 3, 0), I("Pop", 0, 0),
                  I("GetLocal", 3, 0), I("SetGlobal", 4, 0), I("Pop", 0, 0),
                  I("GetGlobal", 5, 0), I("Constant", 6, 0), I("Call", 1, 0),
                  I("Pop", 0, 0), I("GetLocal", 1, 0), I("Print", 0, 0),
                  I("GetGlobal", 7, 0), I("Call", 0, 0), I("Print", 0, 0),
                  I("Nil", 0, 0), I("Return", 0, 0)>>],
     [arity |-> 0, name |-> "", script |-> TRUE,
      upvalues |-> <<>>,
      constants |-> <<KStr("g"), KStr("s"), KStr("make"), KFn(3),
                       KStr("make"), KStr("s"), KNum(3, 1), KStr("g")>>,
      code |-> <<I("Nil", 0, 0), I("DefineGlobal", 0, 0), I("Nil", 0, 0),
                  I("DefineGlobal", 1, 0), I("Closure", 3, 0), I("DefineGlobal", 2, 0),
                  I("GetGlobal", 4, 0), I("Call", 0, 0), I("Pop", 0, 0),
                  I("GetGlobal", 5, 0), I("Constant", 6, 0), I("Call", 1, 0),
                  I("Pop", 0, 0), I("GetGlobal", 7, 0), I("Call", 0, 0),
                  I("Print", 0, 0), I("Nil", 0, 0), I("Return", 0, 0)>>]>>]

\* var g; var s; { var x = 1; fun get() { return x; } fun set(v) { x = v; } g = get; s = set; s(2); print x; print g(); } s(3); print g();
P_share_block ==
  [name |-> "P_share_block", had_error |-> FALSE,
   events |-> <<EvIntern("g"), EvIntern("s"), EvIntern("get"), EvAlloc(1),
               EvIntern("set"), EvAlloc(2), EvIntern("g"), EvIntern("s"),
               EvIntern("s"), EvIntern("g"), EvIntern("s"), EvIntern("g"),
               EvAlloc(3)>>,
   fns |-> <<[arity |-> 0, name |-> "get", script |-> FALSE,
      upvalues |-> <<Upv(1, TRUE)>>,
      constants |-> <<>>,
      code |-> <<I("GetUpvalue", 0, 0), I("Return", 0, 0), I("Nil", 0, 0),
                  I("Return", 0, 0)>>],
     [arity |-> 1, name |-> "set", script |-> FALSE,
      upvalues |-> <<Upv(1, TRUE)>>,
      constants |-> <<>>,
      code |-> <<I("GetLocal", 1, 0), I("SetUpvalue", 0, 0), I("Pop", 0, 0),
                  I("Nil", 0, 0), I("Return", 0, 0)>>],
     [arity |-> 0, name |-> "", script |-> TRUE,
      upvalues |-> <<>>,
      constants |-> <<KStr("g"), KStr("s"), KNum(1, 1), KFn(1),
                       KFn(2), KStr("g"), KStr("s"), KStr("s"),
                       KNum(2, 1), KStr("g"), KStr("s"), KNum(3, 1),
                       KStr("g")>>,
      code |-> <<I("Nil", 0, 0), I("DefineGlobal", 0, 0), I("Nil", 0, 0),
                  I("DefineGlobal", 1, 0), I("Constant", 2, 0), I("Closure", 3, 0),
                  I("Closure", 4, 0), I("GetLocal", 2, 0), I("SetGlobal", 5, 0),
                  I("Pop", 0, 0), I("GetLocal", 3, 0), I("SetGlobal", 6, 0),
                  I("Pop", 0, 0), I("GetGlobal", 7, 0), I("Constant", 8, 0),
                  I("Call", 1, 0), I("Pop", 0, 0), I("GetLocal", 1, 0),
                  I("Print", 0, 0), I("GetGlobal", 9, 0), I("Call", 0, 0),
                  I("Print", 0, 0), I("Pop", 0, 0), I("Pop", 0, 0),
                  I("CloseUpvalue", 0, 0), I("GetGlobal", 10, 0), I("Constant", 11, 0),
                  I("Call", 1, 0), I("Pop", 0, 0), I("GetGlobal", 12, 0),
                  I("Call", 0, 0), I("Print", 0, 0), I("Nil", 0, 0),
                  I("Return", 0, 0)>>]>>]

\* fun outer() { var x = 1; fun mid() { fun inner() { return x; } return inner; } return mid; } print outer()()();
P_nested_upvalue ==
  [name |-> "P_nested_upvalue", had_error |-> FALSE,
   events |-> <<EvIntern("outer"), EvIntern("outer"), EvIntern("mid"), EvIntern("inner"),
               EvAlloc(1), EvAlloc(2), EvAlloc(3), EvIntern("outer"),
               EvAlloc(4)>>,
   fns |-> <<[arity |-> 0, name |-> "inner", script |-> FALSE,
      upvalues |-> <<Upv(0, FALSE)>>,
      constants |-> <<>>,
      code |-> <<I("GetUpvalue", 0, 0), I("Return", 0, 0), I("Nil", 0, 0),
                  I("Return", 0, 0)>>],
     [arity |-> 0, name |-> "mid", script |-> FALSE,
      upvalues |-> <<Upv(1, TRUE)>>,
      constants |-> <<KFn(1)>>,
      code |-> <<I("Closure", 0, 0), I("GetLocal", 1, 0), I("Return", 0, 0),
                  I("Nil", 0, 0), I("Return", 0, 0)>>],
     [arity |-> 0, name |-> "outer", script |-> FALSE,
      upvalues |-> <<>>,
      constants |-> <<KNum(1, 1), KFn(2)>>,
      code |-> <<I("Constant", 0, 0), I("Closure", 1, 0), I("GetLocal", 2, 0),
                  I("Return", 0, 0), I("Nil", 0, 0), I("Return", 0, 0)>>],
     [arity |-> 0, name |-> "", script |-> TRUE,
      upvalues |-> <<>>,
      constants |-> <<KStr("outer"), KFn(3), KStr("outer")>>,
      code |-> <<I("Closure", 1, 0), I("DefineGlobal", 0, 0), I("GetGlobal", 2, 0),
                  I("Call", 0, 0), I("Call", 0, 0), I("Call", 0, 0),
                  I("Print", 0, 0), I("Nil", 0, 0), I("Return", 0, 0)>>]>>]

\* class A { init(v) { this.f = v; } m() { return "A.m"; } } class B < A { n() { return super.m(); } g() { var h = super.m; return h(); } } var b = B(7); print b.f; print b.n(); print b.g(); print b.m; b.m = 5; print b.m; print b.zz;
P_classes ==
  [name |-> "P_classes", had_error |-> FALSE,
   events |-> <<EvIntern("A"), EvIntern("A"), EvIntern("init"), EvIntern("init"),
               EvIntern("f"), EvAlloc(1), EvIntern("m"), EvIntern("m"),
               EvIntern("A.m"), EvAlloc(2), EvIntern("B"), EvIntern("A"),
               EvIntern("B"), EvIntern("B"), EvIntern("n"), EvIntern("n"),
               EvIntern("m"), EvAlloc(3), EvIntern("g"), EvIntern("g"),
               EvIntern("m"), EvAlloc(4), EvIntern("b"), EvIntern("B"),
               EvIntern("b"), EvIntern("f"), EvIntern("b"), EvIntern("n"),
               EvIntern("b"), EvIntern("g"), EvIntern("b"), EvIntern("m"),
               EvIntern("b"), EvIntern("m"), EvIntern("b"), EvIntern("m"),
               EvIntern("b"), EvIntern("zz"), EvAlloc(5)>>,
   fns |-> <<[arity |-> 1, name |-> "init", script |-> FALSE,
      upvalues |-> <<>>,
      constants |-> <<KStr("f")>>,
      code |-> <<I("GetLocal", 0, 0), I("GetLocal", 1, 0), I("SetProperty", 0, 0),
                  I("Pop", 0, 0), I("GetLocal", 0, 0), I("Return", 0, 0)>>],
     [arity |-> 0, name |-> "m", script |-> FALSE,
      upvalues |-> <<>>,
      constants |-> <<KStr("A.m")>>,
      code |-> <<I("Constant", 0, 0), I("Return", 0, 0), I("Nil", 0, 0),
                  I("Return", 0, 0)>>],
     [arity |-> 0, name |-> "n", script |-> FALSE,
      upvalues |-> <<Upv(1, TRUE)>>,
      constants |-> <<KStr("m")>>,
      code |-> <<I("GetLocal", 0, 0), I("GetUpvalue", 0, 0), I("SuperInvoke", 0, 0),
                  I("Return", 0, 0), I("Nil", 0, 0), I("Return", 0, 0)>>],
     [arity |-> 0, name |-> "g", script |-> FALSE,
      upvalues |-> <<Upv(1, TRUE)>>,
      constants |-> <<KStr("m")>>,
      code |-> <<I("GetLocal", 0, 0), I("GetUpvalue", 0, 0), I("GetSuper", 0, 0),
                  I("GetLocal", 1, 0), I("Call", 0, 0), I("Return", 0, 0),
                  I("Nil", 0, 0), I("Return", 0, 0)>>],
     [arity |-> 0, name |-> "", script |-> TRUE,
      upvalues |-> <<>>,
      constants |-> <<KStr("A"), KStr("A"), KStr("init"), KFn(1),
                       KStr("m"), KFn(2), KStr("B"), KStr("A"),
                       KStr("B"), KStr("B"), KStr("n"), KFn(3),
                       KStr("g"), KFn(4), KStr("b"), KStr("B"),
                       KNum(7, 1), KStr("b"), KStr("f"), KStr("b"),
                       KStr("n"), KStr("b"), KStr("g"), KStr("b"),
                       KStr("m"), KStr("b"), KStr("m"), KNum(5, 1),
                       KStr("b"), KStr("m"), KStr("b"), KStr("zz")>>,
      code |-> <<I("Class", 0, 0), I("DefineGlobal", 0, 0), I("GetGlobal", 1, 0),
                  I("Closure", 3, 0), I("Method", 2, 0), I("Closure", 5, 0),
                  I("Method", 4, 0), I("Pop", 0, 0), I("Class", 6, 0),
                  I("DefineGlobal", 6, 0), I("GetGlobal", 7, 0), I("GetGlobal", 8, 0),
                  I("Inherit", 0, 0), I("GetGlobal", 9, 0), I("Closure", 11, 0),
                  I("Method", 10, 0), I("Closure", 13, 0), I("Method", 12, 0),
                  I("Pop", 0, 0), I("CloseUpvalue", 0, 0), I("GetGlobal", 15, 0),
                  I("Constant", 16, 0), I("Call", 1, 0), I("DefineGlobal", 14, 0),
                  I("GetGlobal", 17, 0), I("GetProperty", 18, 0), I("Print", 0, 0),
                  I("GetGlobal", 19, 0), I("Invoke", 20, 0), I("Print", 0, 0),
                  I("GetGlobal", 21, 0), I("Invoke", 22, 0), I("Print", 0, 0),
                  I("GetGlobal", 23, 0), I("GetProperty", 24, 0), I("Print", 0, 0),
                  I("GetGlobal", 25, 0), I("Constant", 27, 0), I("SetProperty", 26, 0),
                  I("Pop", 0, 0), I("GetGlobal", 28, 0), I("GetProperty", 29, 0),
                  I("Print", 0, 0), I("GetGlobal", 30, 0), I("GetProperty", 31, 0),
                  I("Print", 0, 0), I("Nil", 0, 0), I("Return", 0, 0)>>]>>]

\* class A { m() { return this; } } var a = A(); a.k = a.m; print a.k(); print a.m() == a; a.nomethod();
P_invoke_field ==
  [name |-> "P_invoke_field", had_error |-> FALSE,
   events |-> <<EvIntern("A"), EvIntern("A"), EvIntern("m"), EvIntern("m"),
               EvAlloc(1), EvIntern("a"), EvIntern("A"), EvIntern("a"),
               EvIntern("k"), EvIntern("a"), EvIntern("m"), EvIntern("a"),
               EvIntern("k"), EvIntern("a"), EvIntern("m"), EvIntern("a"),
               EvIntern("a"), EvIntern("nomethod"), EvAlloc(2)>>,
   fns |-> <<[arity |-> 0, name |-> "m", script |-> FALSE,
      upvalues |-> <<>>,
      constants |-> <<>>,
      code |-> <<I("GetLocal", 0, 0), I("Return", 0, 0), I("Nil", 0, 0),
                  I("Return", 0, 0)>>],
     [arity |-> 0, name |-> "", script |-> TRUE,
      upvalues |-> <<>>,
      constants |-> <<KStr("A"), KStr("A"), KStr("m"), KFn(1),
                       KStr("a"), KStr("A"), KStr("a"), KStr("k"),
                       KStr("a"), KStr("m"), KStr("a"), KStr("k"),
                       KStr("a"), KStr("m"), KStr("a"), KStr("a"),
                       KStr("nomethod")>>,
      code |-> <<I("Class", 0, 0), I("DefineGlobal", 0, 0), I("GetGlobal", 1, 0),
                  I("Closure", 3, 0), I("Method", 2, 0), I("Pop", 0, 0),
                  I("GetGlobal", 5, 0), I("Call", 0, 0), I("DefineGlobal", 4, 0),
                  I("GetGlobal", 6, 0), I("GetGlobal", 8, 0), I("GetProperty", 9, 0),
                  I("SetProperty", 7, 0), I("Pop", 0, 0), I("GetGlobal", 10, 0),
                  I("Invoke", 11, 0), I("Print", 0, 0), I("GetGlobal", 12, 0),
                  I("Invoke", 13, 0), I("GetGlobal", 14, 0), I("Equal", 0, 0),
                  I("Print", 0, 0), I("GetGlobal", 15, 0), I("Invoke", 16, 0),
                  I("Pop", 0, 0), I("Nil", 0, 0), I("Return", 0, 0)>>]>>]

\* class P { init() { this.x = 1; return; } } print P().x; P(1);
P_init_return ==
  [name |-> "P_init_return", had_error |-> FALSE,
   events |-> <<EvIntern("P"), EvIntern("P"), EvIntern("init"), EvIntern("init"),
               EvIntern("x"), EvAlloc(1), EvIntern("P"), EvIntern("x"),
               EvIntern("P"), EvAlloc(2)>>,
   fns |-> <<[arity |-> 0, name |-> "init", script |-> FALSE,
      upvalues |-> <<>>,
      constants |-> <<KStr("x"), KNum(1, 1)>>,
      code |-> <<I("GetLocal", 0, 0), I("Constant", 1, 0), I("SetProperty", 0, 0),
                  I("Pop", 0, 0), I("GetLocal", 0, 0), I("Return", 0, 0),
                  I("GetLocal", 0, 0), I("Return", 0, 0)>>],
     [arity |-> 0, name |-> "", script |-> TRUE,
      upvalues |-> <<>>,
      constants |-> <<KStr("P"), KStr("P"), KStr("init"), KFn(1),
                       KStr("P"), KStr("x"), KStr("P"), KNum(1, 1)>>,
      code |-> <<I("Class", 0, 0), I("DefineGlobal", 0, 0), I("GetGlobal", 1, 0),
                  I("Closure", 3, 0), I("Method", 2, 0), I("Pop", 0, 0),
                  I("GetGlobal", 4, 0), I("Call", 0, 0), I("GetProperty", 5, 0),
                  I("Print", 0, 0), I("GetGlobal", 6, 0), I("Constant", 7, 0),
                  I("Call", 1, 0), I("Pop", 0, 0), I("Nil", 0, 0),
                  I("Return", 0, 0)>>]>>]

\* var a = "ab"; var b = "a" + "b"; print a == b; print a + b; var c = b + "c"; print c == "abc"; print "a" + 1;
P_strings ==
  [name |-> "P_strings", had_error |-> FALSE,
   events |-> <<EvIntern("a"), EvIntern("ab"), EvIntern("b"), EvIntern("a"),
               EvIntern("b"), EvIntern("a"), EvIntern("b"), EvIntern("a"),
               EvIntern("b"), EvIntern("c"), EvIntern("b"), EvIntern("c"),
               EvIntern("c"), EvIntern("abc"), EvIntern("a"), EvAlloc(1)>>,
   fns |-> <<[arity |-> 0, name |-> "", script |-> TRUE,
      upvalues |-> <<>>,
      constants |-> <<KStr("a"), KStr("ab"), KStr("b"), KStr("a"),
                       KStr("b"), KStr("a"), KStr("b"), KStr("a"),
                       KStr("b"), KStr("c"), KStr("b"), KStr("c"),
                       KStr("c"), KStr("abc"), KStr("a"), KNum(1, 1)>>,
      code |-> <<I("Constant", 1, 0), I("DefineGlobal", 0, 0), I("Constant", 3, 0),
                  I("Constant", 4, 0), I("Add", 0, 0), I("DefineGlobal", 2, 0),
                  I("GetGlobal", 5, 0), I("GetGlobal", 6, 0), I("Equal", 0, 0),
                  I("Print", 0, 0), I("GetGlobal", 7, 0), I("GetGlobal", 8, 0),
                  I("Add", 0, 0), I("Print", 0, 0), I("GetGlobal", 10, 0),
                  I("Constant", 11, 0), I("Add", 0, 0), I("DefineGlobal", 9, 0),
                  I("GetGlobal", 12, 0), I("Constant", 13, 0), I("Equal", 0, 0),
                  I("Print", 0, 0), I("Constant", 14, 0), I("Constant", 15, 0),
                  I("Add", 0, 0), I("Print", 0, 0), I("Nil", 0, 0),
                  I("Return", 0, 0)>>]>>]

\* fun f() { f(); } f();
P_overflow ==
  [name |-> "P_overflow", had_error |-> FALSE,
   events |-> <<EvIntern("f"), EvIntern("f"), EvIntern("f"), EvAlloc(1),
               EvIntern("f"), EvAlloc(2)>>,
   fns |-> <<[arity |-> 0, name |-> "f", script |-> FALSE,
      upvalues |-> <<>>,
      constants |-> <<KStr("f")>>,
      code |-> <<I("GetGlobal", 0, 0), I("Call", 0, 0), I("Pop", 0, 0),
                  I("Nil", 0, 0), I("Return", 0, 0)>>],
     [arity |-> 0, name |-> "", script |-> TRUE,
      upvalues |-> <<>>,
      constants |-> <<KStr("f"), KFn(1), KStr("f")>>,
      code |-> <<I("Closure", 1, 0), I("DefineGlobal", 0, 0), I("GetGlobal", 2, 0),
                  I("Call", 0, 0), I("Pop", 0, 0), I("Nil", 0, 0),
                  I("Return", 0, 0)>>]>>]

\* fun f(a) { return a; } print f(1); f();
P_arity ==
  [name |-> "P_arity", had_error |-> FALSE,
   events |-> <<EvIntern("f"), EvIntern("f"), EvAlloc(1), EvIntern("f"),
               EvIntern("f"), EvAlloc(2)>>,
   fns |-> <<[arity |-> 1, name |-> "f", script |-> FALSE,
      upvalues |-> <<>>,
      constants |-> <<>>,
      code |-> <<I("GetLocal", 1, 0), I("Return", 0, 0), I("Nil", 0, 0),
                  I("Return", 0, 0)>>],
     [arity |-> 0, name |-> "", script |-> TRUE,
      upvalues |-> <<>>,
      constants |-> <<KStr("f"), KFn(1), KStr("f"), KNum(1, 1),
                       KStr("f")>>,
      code |-> <<I("Closure", 1, 0), I("DefineGlobal", 0, 0), I("GetGlobal", 2, 0),
                  I("Constant", 3, 0), I("Call", 1, 0), I("Print", 0, 0),
                  I("GetGlobal", 4, 0), I("Call", 0, 0), I("Pop", 0, 0),
                  I("Nil", 0, 0), I("Return", 0, 0)>>]>>]

\* fun f() {} class K {} var k = K(); print clock == clock; print nil == nil; print 1 == 1; print 1 == 2; print 1 == true; print "a" == "a"; print 0/0 == 0/0; print true == true; print nil == false; print f == f; print K == K; print k == k; print k == K(); print f == k;
P_equal ==
  [name |-> "P_equal", had_error |-> FALSE,
   events |-> <<EvIntern("f"), EvIntern("f"), EvAlloc(1), EvIntern("K"),
               EvIntern("K"), EvIntern("k"), EvIntern("K"), EvIntern("clock"),
               EvIntern("clock"), EvIntern("a"), EvIntern("a"), EvIntern("f"),
               EvIntern("f"), EvIntern("K"), EvIntern("K"), EvIntern("k"),
               EvIntern("k"), EvIntern("k"), EvIntern("K"), EvIntern("f"),
               EvIntern("k"), EvAlloc(2)>>,
   fns |-> <<[arity |-> 0, name |-> "f", script |-> FALSE,
      upvalues |-> <<>>,
      constants |-> <<>>,
      code |-> <<I("Nil", 0, 0), I("Return", 0, 0)>>],
     [arity |-> 0, name |-> "", script |-> TRUE,
      upvalues |-> <<>>,
      constants |-> <<KStr("f"), KFn(1), KStr("K"), KStr("K"),
                       KStr("k"), KStr("K"), KStr("clock"), KStr("clock"),
                       KNum(1, 1), KNum(1, 1), KNum(1, 1), KNum(2, 1),
                       KNum(1, 1), KStr("a"), KStr("a"), KNum(0, 1),
                       KNum(0, 1), KNum(0, 1), KNum(0, 1), KStr("f"),
                       KStr("f"), KStr("K"), KStr("K"), KStr("k"),
                       KStr("k"), KStr("k"), KStr("K"), KStr("f"),
                       KStr("k")>>,
      code |-> <<I("Closure", 1, 0), I("DefineGlobal", 0, 0), I("Class", 2, 0),
                  I("DefineGlobal", 2, 0), I("GetGlobal", 3, 0), I("Pop", 0, 0),
                  I("GetGlobal", 5, 0), I("Call", 0, 0), I("DefineGlobal", 4, 0),
                  I("GetGlobal", 6, 0), I("GetGlobal", 7, 0), I("Equal", 0, 0),
                  I("Print", 0, 0), I("Nil", 0, 0), I("Nil", 0, 0),
                  I("Equal", 0, 0), I("Print", 0, 0), I("Constant", 8, 0),
                  I("Constant", 9, 0), I("Equal", 0, 0), I("Print", 0, 0),
                  I("Constant", 10, 0), I("Constant", 11, 0), I("Equal", 0, 0),
                  I("Print", 0, 0), I("Constant", 12, 0), I("True", 0, 0),
                  I("Equal", 0, 0), I("Print", 0, 0), I("Constant", 13, 0),
                  I("Constant", 14, 0), I("Equal", 0, 0), I("Print", 0, 0),
                  I("Constant", 15, 0), I("Constant", 16, 0), I("Divide", 0, 0),
                  I("Constant", 17, 0), I("Constant", 18, 0), I("Divide", 0, 0),
                  I("Equal", 0, 0), I("Print", 0, 0), I("True", 0, 0),
                  I("True", 0, 0), I("Equal", 0, 0), I("Print", 0, 0),
                  I("Nil", 0, 0), I("False", 0, 0), I("Equal", 0, 0),
                  I("Print", 0, 0), I("GetGlobal", 19, 0), I("GetGlobal", 20, 0),
                  I("Equal", 0, 0), I("Print", 0, 0), I("GetGlobal", 21, 0),
                  I("GetGlobal", 22, 0), I("Equal", 0, 0), I("Print", 0, 0),
                  I("GetGlobal", 23, 0), I("GetGlobal", 24, 0), I("Equal", 0, 0),
                  I("Print", 0, 0), I("GetGlobal", 25, 0), I("GetGlobal", 26, 0),
                  I("Call", 0, 0), I("Equal", 0, 0), I("Print", 0, 0),
                  I("GetGlobal", 27, 0), I("GetGlobal", 28, 0), I("Equal", 0, 0),
                  I("Print", 0, 0), I("Nil", 0, 0), I("Return", 0, 0)>>]>>]

\* class A {} var a = A(); a.me = a; var b = A(); print "done";
P_selfref ==
  [name |-> "P_selfref", had_error |-> FALSE,
   events |-> <<EvIntern("A"), EvIntern("A"), EvIntern("a"), EvIntern("A"),
               EvIntern("a"), EvIntern("me"), EvIntern("a"), EvIntern("b"),
               EvIntern("A"), EvIntern("done"), EvAlloc(1)>>,
   fns |-> <<[arity |-> 0, name |-> "", script |-> TRUE,
      upvalues |-> <<>>,
      constants |-> <<KStr("A"), KStr("A"), KStr("a"), KStr("A"),
                       KStr("a"), KStr("me"), KStr("a"), KStr("b"),
                       KStr("A"), KStr("done")>>,
      code |-> <<I("Class", 0, 0), I("DefineGlobal", 0, 0), I("GetGlobal", 1, 0),
                  I("Pop", 0, 0), I("GetGlobal", 3, 0), I("Call", 0, 0),
                  I("DefineGlobal", 2, 0), I("GetGlobal", 4, 0), I("GetGlobal", 6, 0),
                  I("SetProperty", 5, 0), I("Pop", 0, 0), I("GetGlobal", 8, 0),
                  I("Call", 0, 0), I("DefineGlobal", 7, 0), I("Constant", 9, 0),
                  I("Print", 0, 0), I("Nil", 0, 0), I("Return", 0, 0)>>]>>]

\* var i = 0; while (i < 2) { i = i + 1; } if (i > 1 and !(i == 3) or false) print -i * 2 - 1; else print i / 2; for (var j = 0; j < 1; j = j + 1) { print j; } print true;
P_control ==
  [name |-> "P_control", had_error |-> FALSE,
   events |-> <<EvIntern("i"), EvIntern("i"), EvIntern("i"), EvIntern("i"),
               EvIntern("i"), EvIntern("i"), EvIntern("i"), EvIntern("i"),
               EvAlloc(1)>>,
   fns |-> <<[arity |-> 0, name |-> "", script |-> TRUE,
      upvalues |-> <<>>,
      constants |-> <<KStr("i"), KNum(0, 1), KStr("i"), KNum(2, 1),
                       KStr("i"), KStr("i"), KNum(1, 1), KStr("i"),
                       KNum(1, 1), KStr("i"), KNum(3, 1), KStr("i"),
                       KNum(2, 1), KNum(1, 1), KStr("i"), KNum(2, 1),
                       KNum(0, 1), KNum(1, 1), KNum(1, 1)>>,
      code |-> <<I("Constant", 1, 0), I("DefineGlobal", 0, 0), I("GetGlobal", 2, 0),
                  I("Constant", 3, 0), I("Less", 0, 0), I("JumpIfFalse", 7, 0),
                  I("Pop", 0, 0), I("GetGlobal", 5, 0), I("Constant", 6, 0),
                  I("Add", 0, 0), I("SetGlobal", 4, 0), I("Pop", 0, 0),
                  I("Loop", 10, 0), I("Pop", 0, 0), I("GetGlobal", 7, 0),
                  I("Constant", 8, 0), I("Greater", 0, 0), I("JumpIfFalse", 5, 0),
                  I("Pop", 0, 0), I("GetGlobal", 9, 0), I("Constant", 10, 0),
                  I("Equal", 0, 0), I("Not", 0, 0), I("JumpIfFalse", 1, 0),
                  I("Jump", 2, 0), I("Pop", 0, 0), I("False", 0, 0),
                  I("JumpIfFalse", 9, 0), I("Pop", 0, 0), I("GetGlobal", 11, 0),
                  I("Negate", 0, 0), I("Constant", 12, 0), I("Multiply", 0, 0),
                  I("Constant", 13, 0), I("Substract", 0, 0), I("Print", 0, 0),
                  I("Jump", 5, 0), I("Pop", 0, 0), I("GetGlobal", 14, 0),
                  I("Constant", 15, 0), I("Divide", 0, 0), I("Print", 0, 0),
                  I("Constant", 16, 0), I("GetLocal", 1, 0), I("Constant", 17, 0),
                  I("Less", 0, 0), I("JumpIfFalse", 11, 0), I("Pop", 0, 0),
                  I("Jump", 6, 0), I("GetLocal", 1, 0), I("Constant", 18, 0),
                  I("Add", 0, 0), I("SetLocal", 1, 0), I("Pop", 0, 0),
                  I("Loop", 11, 0), I("GetLocal", 1, 0), I("Print", 0, 0),
                  I("Loop", 8, 0), I("Pop", 0, 0), I("Pop", 0, 0),
                  I("True", 0, 0), I("Print", 0, 0), I("Nil", 0, 0),
                  I("Return", 0, 0)>>]>>]

\* print ;
P_compile_error ==
  [name |-> "P_compile_error", had_error |-> TRUE,
   events |-> <<>>,
   fns |-> <<>>]

\* fun f() { return "s"; } var 1;
P_compile_error_fn ==
  [name |-> "P_compile_error_fn", had_error |-> TRUE,
   events |-> <<EvIntern("f"), EvIntern("f"), EvIntern("s"), EvAlloc(1),
               EvIntern("var")>>,
   fns |-> <<[arity |-> 0, name |-> "f", script |-> FALSE,
      upvalues |-> <<>>,
      constants |-> <<KStr("s")>>,
      code |-> <<I("Constant", 0, 0), I("Return", 0, 0), I("Nil", 0, 0),
                  I("Return", 0, 0)>>]>>]

\* var s = "x"; print s.len;
P_prop_noninstance ==
  [name |-> "P_prop_noninstance", had_error |-> FALSE,
   events |-> <<EvIntern("s"), EvIntern("x"), EvIntern("s"), EvIntern("len"),
               EvAlloc(1)>>,
   fns |-> <<[arity |-> 0, name |-> "", script |-> TRUE,
      upvalues |-> <<>>,
      constants |-> <<KStr("s"), KStr("x"), KStr("s"), KStr("len")>>,
      code |-> <<I("Constant", 1, 0), I("DefineGlobal", 0, 0), I("GetGlobal", 2, 0),
                  I("GetProperty", 3, 0), I("Print", 0, 0), I("Nil", 0, 0),
                  I("Return", 0, 0)>>]>>]

\* var NotClass = 1; class C < NotClass {}
P_super_nonclass ==
  [name |-> "P_super_nonclass", had_error |-> FALSE,
   events |-> <<EvIntern("NotClass"), EvIntern("C"), EvIntern("NotClass"), EvIntern("C"),
               EvIntern("C"), EvAlloc(1)>>,
   fns |-> <<[arity |-> 0, name |-> "", script |-> TRUE,
      upvalues |-> <<>>,
      constants |-> <<KStr("NotClass"), KNum(1, 1), KStr("C"), KStr("NotClass"),
                       KStr("C"), KStr("C")>>,
      code |-> <<I("Constant", 1, 0), I("DefineGlobal", 0, 0), I("Class", 2, 0),
                  I("DefineGlobal", 2, 0), I("GetGlobal", 3, 0), I("GetGlobal", 4, 0),
                  I("Inherit", 0, 0), I("GetGlobal", 5, 0), I("Pop", 0, 0),
                  I("Pop", 0, 0), I("Nil", 0, 0), I("Return", 0, 0)>>]>>]

\* var t = clock(); print t >= 0;
P_clock ==
  [name |-> "P_clock", had_error |-> FALSE,
   events |-> <<EvIntern("t"), EvIntern("clock"), EvIntern("t"), EvAlloc(1)>>,
   fns |-> <<[arity |-> 0, name |-> "", script |-> TRUE,
      upvalues |-> <<>>,
      constants |-> <<KStr("t"), KStr("clock"), KStr("t"), KNum(0, 1)>>,
      code |-> <<I("GetGlobal", 1, 0), I("Call", 0, 0), I("DefineGlobal", 0, 0),
                  I("GetGlobal", 2, 0), I("Constant", 3, 0), I("Less", 0, 0),
                  I("Not", 0, 0), I("Print", 0, 0), I("Nil", 0, 0),
                  I("Return", 0, 0)>>]>>]

\* panic("x");
P_panic ==
  [name |-> "P_panic", had_error |-> FALSE,
   events |-> <<EvIntern("panic"), EvIntern("x"), EvAlloc(1)>>,
   fns |-> <<[arity |-> 0, name |-> "", script |-> TRUE,
      upvalues |-> <<>>,
      constants |-> <<KStr("panic"), KStr("x")>>,
      code |-> <<I("GetGlobal", 0, 0), I("Constant", 1, 0), I("Call", 1, 0),
                  I("Pop", 0, 0), I("Nil", 0, 0), I("Return", 0, 0)>>]>>]

\* x = 1;
P_undef_set ==
  [name |-> "P_undef_set", had_error |-> FALSE,
   events |-> <<EvIntern("x"), EvAlloc(1)>>,
   fns |-> <<[arity |-> 0, name |-> "", script |-> TRUE,
      upvalues |-> <<>>,
      constants |-> <<KStr("x"), KNum(1, 1)>>,
      code |-> <<I("Constant", 1, 0), I("SetGlobal", 0, 0), I("Pop", 0, 0),
                  I("Nil", 0, 0), I("Return", 0, 0)>>]>>]

\* nosuch;
P_undef_get ==
  [name |-> "P_undef_get", had_error |-> FALSE,
   events |-> <<EvIntern("nosuch"), EvAlloc(1)>>,
   fns |-> <<[arity |-> 0, name |-> "", script |-> TRUE,
      upvalues |-> <<>>,
      constants |-> <<KStr("nosuch")>>,
      code |-> <<I("GetGlobal", 0, 0), I("Pop", 0, 0), I("Nil", 0, 0),
                  I("Return", 0, 0)>>]>>]

\* nil();
P_call_noncallable ==
  [name |-> "P_call_noncallable", had_error |-> FALSE,
   events |-> <<EvAlloc(1)>>,
   fns |-> <<[arity |-> 0, name |-> "", script |-> TRUE,
      upvalues |-> <<>>,
      constants |-> <<>>,
      code |-> <<I("Nil", 0, 0), I("Call", 0, 0), I("Pop", 0, 0),
                  I("Nil", 0, 0), I("Return", 0, 0)>>]>>]

\* nil.m();
P_invoke_noninstance ==
  [name |-> "P_invoke_noninstance", had_error |-> FALSE,
   events |-> <<EvIntern("m"), EvAlloc(1)>>,
   fns |-> <<[arity |-> 0, name |-> "", script |-> TRUE,
      upvalues |-> <<>>,
      constants |-> <<KStr("m")>>,
      code |-> <<I("Nil", 0, 0), I("Invoke", 0, 0), I("Pop", 0, 0),
                  I("Nil", 0, 0), I("Return", 0, 0)>>]>>]

\* nil.f = 1;
P_setprop_noninstance ==
  [name |-> "P_setprop_noninstance", had_error |-> FALSE,
   events |-> <<EvIntern("f"), EvAlloc(1)>>,
   fns |-> <<[arity |-> 0, name |-> "", script |-> TRUE,
      upvalues |-> <<>>,
      constants |-> <<KStr("f"), KNum(1, 1)>>,
      code |-> <<I("Nil", 0, 0), I("Constant", 1, 0), I("SetProperty", 0, 0),
                  I("Pop", 0, 0), I("Nil", 0, 0), I("Return", 0, 0)>>]>>]

\* -"a";
P_negate_err ==
  [name |-> "P_negate_err", had_error |-> FALSE,
   events |-> <<EvIntern("a"), EvAlloc(1)>>,
   fns |-> <<[arity |-> 0, name |-> "", script |-> TRUE,
      upvalues |-> <<>>,
      constants |-> <<KStr("a")>>,
      code |-> <<I("Constant", 0, 0), I("Negate", 0, 0), I("Pop", 0, 0),
                  I("Nil", 0, 0), I("Return", 0, 0)>>]>>]

\* 1 < "a";
P_binop_err ==
  [name |-> "P_binop_err", had_error |-> FALSE,
   events |-> <<EvIntern("a"), EvAlloc(1)>>,
   fns |-> <<[arity |-> 0, name |-> "", script |-> TRUE,
      upvalues |-> <<>>,
      constants |-> <<KNum(1, 1), KStr("a")>>,
      code |-> <<I("Constant", 0, 0), I("Constant", 1, 0), I("Less", 0, 0),
                  I("Pop", 0, 0), I("Nil", 0, 0), I("Return", 0, 0)>>]>>]

\* class A {} A(1);
P_class_args ==
  [name |-> "P_class_args", had_error |-> FALSE,
   events |-> <<EvIntern("A"), EvIntern("A"), EvIntern("A"), EvAlloc(1)>>,
   fns |-> <<[arity |-> 0, name |-> "", script |-> TRUE,
      upvalues |-> <<>>,
      constants |-> <<KStr("A"), KStr("A"), KStr("A"), KNum(1, 1)>>,
      code |-> <<I("Class", 0, 0), I("DefineGlobal", 0, 0), I("GetGlobal", 1, 0),
                  I("Pop", 0, 0), I("GetGlobal", 2, 0), I("Constant", 3, 0),
                  I("Call", 1, 0), I("Pop", 0, 0), I("Nil", 0, 0),
                  I("Return", 0, 0)>>]>>]

\* { var a = 1; print a; }
P_local ==
  [name |-> "P_local", had_error |-> FALSE,
   events |-> <<EvAlloc(1)>>,
   fns |-> <<[arity |-> 0, name |-> "", script |-> TRUE,
      upvalues |-> <<>>,
      constants |-> <<KNum(1, 1)>>,
      code |-> <<I("Constant", 0, 0), I("GetLocal", 1, 0), I("Print", 0, 0),
                  I("Pop", 0, 0), I("Nil", 0, 0), I("Return", 0, 0)>>]>>]

\* fun f() { return nosuch; } f();
P_nested_err ==
  [name |-> "P_nested_err", had_error |-> FALSE,
   events |-> <<EvIntern("f"), EvIntern("f"), EvIntern("nosuch"), EvAlloc(1),
               EvIntern("f"), EvAlloc(2)>>,
   fns |-> <<[arity |-> 0, name |-> "f", script |-> FALSE,
      upvalues |-> <<>>,
      constants |-> <<KStr("nosuch")>>,
      code |-> <<I("GetGlobal", 0, 0), I("Return", 0, 0), I("Nil", 0, 0),
                  I("Return", 0, 0)>>],
     [arity |-> 0, name |-> "", script |-> TRUE,
      upvalues |-> <<>>,
      constants |-> <<KStr("f"), KFn(1), KStr("f")>>,
      code |-> <<I("Closure", 1, 0), I("DefineGlobal", 0, 0), I("GetGlobal", 2, 0),
                  I("Call", 0, 0), I("Pop", 0, 0), I("Nil", 0, 0),
                  I("Return", 0, 0)>>]>>]

\* print clock(1, 2) >= 0; panic("x", 1, nil);
P_natives ==
  [name |-> "P_natives", had_error |-> FALSE,
   events |-> <<EvIntern("clock"), EvIntern("panic"), EvIntern("x"), EvAlloc(1)>>,
   fns |-> <<[arity |-> 0, name |-> "", script |-> TRUE,
      upvalues |-> <<>>,
      constants |-> <<KStr("clock"), KNum(1, 1), KNum(2, 1), KNum(0, 1),
                       KStr("panic"), KStr("x"), KNum(1, 1)>>,
      code |-> <<I("GetGlobal", 0, 0), I("Constant", 1, 0), I("Constant", 2, 0),
                  I("Call", 2, 0), I("Constant", 3, 0), I("Less", 0, 0),
                  I("Not", 0, 0), I("Print", 0, 0), I("GetGlobal", 4, 0),
                  I("Constant", 5, 0), I("Constant", 6, 0), I("Nil", 0, 0),
                  I("Call", 3, 0), I("Pop", 0, 0), I("Nil", 0, 0),
                  I("Return", 0, 0)>>]>>]

\* print !0; print !""; print !nil; print !false; if (0) print "zero"; if ("") print "empty"; if (nil) print "nil"; else print "not nil"; print !clock;
P_truthy ==
  [name |-> "P_truthy", had_error |-> FALSE,
   events |-> <<EvIntern(""), EvIntern("zero"), EvIntern(""), EvIntern("empty"),
               EvIntern("nil"), EvIntern("not nil"), EvIntern("clock"), EvAlloc(1)>>,
   fns |-> <<[arity |-> 0, name |-> "", script |-> TRUE,
      upvalues |-> <<>>,
      constants |-> <<KNum(0, 1), KStr(""), KNum(0, 1), KStr("zero"),
                       KStr(""), KStr("empty"), KStr("nil"), KStr("not nil"),
                       KStr("clock")>>,
      code |-> <<I("Constant", 0, 0), I("Not", 0, 0), I("Print", 0, 0),
                  I("Constant", 1, 0), I("Not", 0, 0), I("Print", 0, 0),
                  I("Nil", 0, 0), I("Not", 0, 0), I("Print", 0, 0),
                  I("False", 0, 0), I("Not", 0, 0), I("Print", 0, 0),
                  I("Constant", 2, 0), I("JumpIfFalse", 4, 0), I("Pop", 0, 0),
                  I("Constant", 3, 0), I("Print", 0, 0), I("Jump", 1, 0),
                  I("Pop", 0, 0), I("Constant", 4, 0), I("JumpIfFalse", 4, 0),
                  I("Pop", 0, 0), I("Constant", 5, 0), I("Print", 0, 0),
                  I("Jump", 1, 0), I("Pop", 0, 0), I("Nil", 0, 0),
                  I("JumpIfFalse", 4, 0), I("Pop", 0, 0), I("Constant", 6, 0),
                  I("Print", 0, 0), I("Jump", 3, 0), I("Pop", 0, 0),
                  I("Constant", 7, 0), I("Print", 0, 0), I("GetGlobal", 8, 0),
                  I("Not", 0, 0), I("Print", 0, 0), I("Nil", 0, 0),
                  I("Return", 0, 0)>>]>>]

\* n copies of x
Rep(n, x) == [i \in 1..n |-> x]

\* fun f() { var a1; ... var a255; nil == (nil == (nil == f())); } { var a1; ... var a255; f(); }
\* (255 declarations in each body: with slot 0 the function and the block
\* each hold Compiler::LOCAL_COUNT locals)
P_deep ==
  [name |-> "P_deep", had_error |-> FALSE,
   events |-> <<EvIntern("f"), EvIntern("f"), EvIntern("f"), EvAlloc(1),
               EvIntern("f"), EvAlloc(2)>>,
   fns |-> <<[arity |-> 0, name |-> "f", script |-> FALSE,
      upvalues |-> <<>>,
      constants |-> <<KStr("f")>>,
      code |-> Rep(255, I("Nil", 0, 0)) \o
               <<I("Nil", 0, 0), I("Nil", 0, 0), I("Nil", 0, 0),
                 I("GetGlobal", 0, 0), I("Call", 0, 0), I("Equal", 0, 0),
                 I("Equal", 0, 0), I("Equal", 0, 0), I("Pop", 0, 0),
                 I("Nil", 0, 0), I("Return", 0, 0)>>],
     [arity |-> 0, name |-> "", script |-> TRUE,
      upvalues |-> <<>>,
      constants |-> <<KStr("f"), KFn(1), KStr("f")>>,
      code |-> <<I("Closure", 1, 0), I("DefineGlobal", 0, 0)>> \o
               Rep(255, I("Nil", 0, 0)) \o
               <<I("GetGlobal", 2, 0), I("Call", 0, 0), I("Pop", 0, 0)>> \o
               Rep(255, I("Pop", 0, 0)) \o
               <<I("Nil", 0, 0), I("Return", 0, 0)>>]>>]

\* print "a" + "b" + "c";
P_concat ==
  [name |-> "P_concat", had_error |-> FALSE,
   events |-> <<EvIntern("a"), EvIntern("b"), EvIntern("c"), EvAlloc(1)>>,
   fns |-> <<[arity |-> 0, name |-> "", script |-> TRUE,
      upvalues |-> <<>>,
      constants |-> <<KStr("a"), KStr("b"), KStr("c")>>,
      code |-> <<I("Constant", 0, 0), I("Constant", 1, 0), I("Add", 0, 0),
                  I("Constant", 2, 0), I("Add", 0, 0), I("Print", 0, 0),
                  I("Nil", 0, 0), I("Return", 0, 0)>>]>>]

\* { var x = 1; var y = 2; fun f() { return x + y; } fun g() { return x; } { var z = 3; fun h() { z = z + x; return z; } print h(); } print f() + g(); }
P_upvalues ==
  [name |-> "P_upvalues", had_error |-> FALSE,
   events |-> <<EvIntern("f"), EvAlloc(1), EvIntern("g"), EvAlloc(2),
               EvIntern("h"), EvAlloc(3), EvAlloc(4)>>,
   fns |-> <<[arity |-> 0, name |-> "f", script |-> FALSE,
      upvalues |-> <<Upv(1, TRUE), Upv(2, TRUE)>>,
      constants |-> <<>>,
      code |-> <<I("GetUpvalue", 0, 0), I("GetUpvalue", 1, 0), I("Add", 0, 0),
                  I("Return", 0, 0), I("Nil", 0, 0), I("Return", 0, 0)>>],
     [arity |-> 0, name |-> "g", script |-> FALSE,
      upvalues |-> <<Upv(1, TRUE)>>,
      constants |-> <<>>,
      code |-> <<I("GetUpvalue", 0, 0), I("Return", 0, 0), I("Nil", 0, 0),
                  I("Return", 0, 0)>>],
     [arity |-> 0, name |-> "h", script |-> FALSE,
      upvalues |-> <<Upv(5, TRUE), Upv(1, TRUE)>>,
      constants |-> <<>>,
      code |-> <<I("GetUpvalue", 0, 0), I("GetUpvalue", 1, 0), I("Add", 0, 0),
                  I("SetUpvalue", 0, 0), I("Pop", 0, 0), I("GetUpvalue", 0, 0),
                  I("Return", 0, 0), I("Nil", 0, 0), I("Return", 0, 0)>>],
     [arity |-> 0, name |-> "", script |-> TRUE,
      upvalues |-> <<>>,
      constants |-> <<KNum(1, 1), KNum(2, 1), KFn(1), KFn(2),
                       KNum(3, 1), KFn(3)>>,
      code |-> <<I("Constant", 0, 0), I("Constant", 1, 0), I("Closure", 2, 0),
                  I("Closure", 3, 0), I("Constant", 4, 0), I("Closure", 5, 0),
                  I("GetLocal", 6, 0), I("Call", 0, 0), I("Print", 0, 0),
                  I("Pop", 0, 0), I("CloseUpvalue", 0, 0), I("GetLocal", 3, 0),
                  I("Call", 0, 0), I("GetLocal", 4, 0), I("Call", 0, 0),
                  I("Add", 0, 0), I("Print", 0, 0), I("Pop", 0, 0),
                  I("Pop", 0, 0), I("CloseUpvalue", 0, 0), I("CloseUpvalue", 0, 0),
                  I("Nil", 0, 0), I("Return", 0, 0)>>]>>]

\* { var x = 1; fun f() { return x; } x = 2; }
P_closure_line ==
  [name |-> "P_closure_line", had_error |-> FALSE,
   events |-> <<EvIntern("f"), EvAlloc(1), EvAlloc(2)>>,
   fns |-> <<[arity |-> 0, name |-> "f", script |-> FALSE,
      upvalues |-> <<Upv(1, TRUE)>>,
      constants |-> <<>>,
      code |-> <<I("GetUpvalue", 0, 0), I("Return", 0, 0), I("Nil", 0, 0),
                  I("Return", 0, 0)>>],
     [arity |-> 0, name |-> "", script |-> TRUE,
      upvalues |-> <<>>,
      constants |-> <<KNum(1, 1), KFn(1), KNum(2, 1)>>,
      code |-> <<I("Constant", 0, 0), I("Closure", 1, 0), I("Constant", 2, 0),
                  I("SetLocal", 1, 0), I("Pop", 0, 0), I("Pop", 0, 0),
                  I("CloseUpvalue", 0, 0), I("Nil", 0, 0), I("Return", 0, 0)>>]>>]

\* { var x = 1; nosuch; fun f() { return x; } print f; }
P_resume_capture ==
  [name |-> "P_resume_capture", had_error |-> FALSE,
   events |-> <<EvIntern("nosuch"), EvIntern("f"), EvAlloc(1), EvAlloc(2)>>,
   fns |-> <<[arity |-> 0, name |-> "f", script |-> FALSE,
      upvalues |-> <<Upv(1, TRUE)>>,
      constants |-> <<>>,
      code |-> <<I("GetUpvalue", 0, 0), I("Return", 0, 0), I("Nil", 0, 0),
                  I("Return", 0, 0)>>],
     [arity |-> 0, name |-> "", script |-> TRUE,
      upvalues |-> <<>>,
      constants |-> <<KNum(1, 1), KStr("nosuch"), KFn(1)>>,
      code |-> <<I("Constant", 0, 0), I("GetGlobal", 1, 0), I("Pop", 0, 0),
                  I("Closure", 2, 0), I("GetLocal", 2, 0), I("Print", 0, 0),
                  I("Pop", 0, 0), I("CloseUpvalue", 0, 0), I("Nil", 0, 0),
                  I("Return", 0, 0)>>]>>]

\* fun m() { var a = 1; var b = 2; fun p() { return a + b; } return p; } print m()();
P_close_two ==
  [name |-> "P_close_two", had_error |-> FALSE,
   events |-> <<EvIntern("m"), EvIntern("m"), EvIntern("p"), EvAlloc(1),
               EvAlloc(2), EvIntern("m"), EvAlloc(3)>>,
   fns |-> <<[arity |-> 0, name |-> "p", script |-> FALSE,
      upvalues |-> <<Upv(1, TRUE), Upv(2, TRUE)>>,
      constants |-> <<>>,
      code |-> <<I("GetUpvalue", 0, 0), I("GetUpvalue", 1, 0), I("Add", 0, 0),
                  I("Return", 0, 0), I("Nil", 0, 0), I("Return", 0, 0)>>],
     [arity |-> 0, name |-> "m", script |-> FALSE,
      upvalues |-> <<>>,
      constants |-> <<KNum(1, 1), KNum(2, 1), KFn(1)>>,
      code |-> <<I("Constant", 0, 0), I("Constant", 1, 0), I("Closure", 2, 0),
                  I("GetLocal", 3, 0), I("Return", 0, 0), I("Nil", 0, 0),
                  I("Return", 0, 0)>>],
     [arity |-> 0, name |-> "", script |-> TRUE,
      upvalues |-> <<>>,
      constants |-> <<KStr("m"), KFn(2), KStr("m")>>,
      code |-> <<I("Closure", 1, 0), I("DefineGlobal", 0, 0), I("GetGlobal", 2, 0),
                  I("Call", 0, 0), I("Call", 0, 0), I("Print", 0, 0),
                  I("Nil", 0, 0), I("Return", 0, 0)>>]>>]

\* { class A { m() { return 1; } } print A().m(); }
P_class_line ==
  [name |-> "P_class_line", had_error |-> FALSE,
   events |-> <<EvIntern("A"), EvIntern("m"), EvIntern("m"), EvAlloc(1),
               EvIntern("m"), EvAlloc(2)>>,
   fns |-> <<[arity |-> 0, name |-> "m", script |-> FALSE,
      upvalues |-> <<>>,
      constants |-> <<KNum(1, 1)>>,
      code |-> <<I("Constant", 0, 0), I("Return", 0, 0), I("Nil", 0, 0),
                  I("Return", 0, 0)>>],
     [arity |-> 0, name |-> "", script |-> TRUE,
      upvalues |-> <<>>,
      constants |-> <<KStr("A"), KStr("m"), KFn(1), KStr("m")>>,
      code |-> <<I("Class", 0, 0), I("GetLocal", 1, 0), I("Closure", 2, 0),
                  I("Method", 1, 0), I("Pop", 0, 0), I("GetLocal", 1, 0),
                  I("Call", 0, 0), I("Invoke", 3, 0), I("Print", 0, 0),
                  I("Pop", 0, 0), I("Nil", 0, 0), I("Return", 0, 0)>>]>>]

\* class A { m(x, y) { return x + y; } } fun f(p) { return p; } var a = A(); a.k = f; a.c = A; print a.m(1, 2); print a.k(3); print a.c();
\* class A { m(x, y) { return x + y; } } fun f(p, q) { return p - q; } var a = A(); a.c = A; print a.m(1, 2); a.m = f; print a.m(5, 1); print a.c();
P_invoke_args ==
  [name |-> "P_invoke_args", had_error |-> FALSE,
   events |-> <<EvIntern("A"), EvIntern("A"), EvIntern("m"), EvIntern("m"),
               EvAlloc(1), EvIntern("f"), EvIntern("f"), EvAlloc(2),
               EvIntern("a"), EvIntern("A"), EvIntern("a"), EvIntern("c"),
               EvIntern("A"), EvIntern("a"), EvIntern("m"), EvIntern("a"),
               EvIntern("m"), EvIntern("f"), EvIntern("a"), EvIntern("m"),
               EvIntern("a"), EvIntern("c"), EvAlloc(3)>>,
   fns |-> <<[arity |-> 2, name |-> "m", script |-> FALSE,
      upvalues |-> <<>>,
      constants |-> <<>>,
      code |-> <<I("GetLocal", 1, 0), I("GetLocal", 2, 0), I("Add", 0, 0),
                  I("Return", 0, 0), I("Nil", 0, 0), I("Return", 0, 0)>>],
     [arity |-> 2, name |-> "f", script |-> FALSE,
      upvalues |-> <<>>,
      constants |-> <<>>,
      code |-> <<I("GetLocal", 1, 0), I("GetLocal", 2, 0), I("Substract", 0, 0),
                  I("Return", 0, 0), I("Nil", 0, 0), I("Return", 0, 0)>>],
     [arity |-> 0, name |-> "", script |-> TRUE,
      upvalues |-> <<>>,
      constants |-> <<KStr("A"), KStr("A"), KStr("m"), KFn(1),
                       KStr("f"), KFn(2), KStr("a"), KStr("A"),
                       KStr("a"), KStr("c"), KStr("A"), KStr("a"),
                       KStr("m"), KNum(1, 1), KNum(2, 1), KStr("a"),
                       KStr("m"), KStr("f"), KStr("a"), KStr("m"),
                       KNum(5, 1), KNum(1, 1), KStr("a"), KStr("c")>>,
      code |-> <<I("Class", 0, 0), I("DefineGlobal", 0, 0), I("GetGlobal", 1, 0),
                  I("Closure", 3, 0), I("Method", 2, 0), I("Pop", 0, 0),
                  I("Closure", 5, 0), I("DefineGlobal", 4, 0), I("GetGlobal", 7, 0),
                  I("Call", 0, 0), I("DefineGlobal", 6, 0), I("GetGlobal", 8, 0),
                  I("GetGlobal", 10, 0), I("SetProperty", 9, 0), I("Pop", 0, 0),
                  I("GetGlobal", 11, 0), I("Constant", 13, 0), I("Constant", 14, 0),
                  I("Invoke", 12, 2), I("Print", 0, 0), I("GetGlobal", 15, 0),
                  I("GetGlobal", 17, 0), I("SetProperty", 16, 0), I("Pop", 0, 0),
                  I("GetGlobal", 18, 0), I("Constant", 20, 0), I("Constant", 21, 0),
                  I("Invoke", 19, 2), I("Print", 0, 0), I("GetGlobal", 22, 0),
                  I("Invoke", 23, 0), I("Print", 0, 0), I("Nil", 0, 0),
                  I("Return", 0, 0)>>]>>]

\* class A {} { var a = A(); var b = A(); var c = A(); } var d = A(); print d;
P_garbage ==
  [name |-> "P_garbage", had_error |-> FALSE,
   events |-> <<EvIntern("A"), EvIntern("A"), EvIntern("A"), EvIntern("A"),
               EvIntern("A"), EvIntern("d"), EvIntern("A"), EvIntern("d"),
               EvAlloc(1)>>,
   fns |-> <<[arity |-> 0, name |-> "", script |-> TRUE,
      upvalues |-> <<>>,
      constants |-> <<KStr("A"), KStr("A"), KStr("A"), KStr("A"),
                       KStr("A"), KStr("d"), KStr("A"), KStr("d")>>,
      code |-> <<I("Class", 0, 0), I("DefineGlobal", 0, 0), I("GetGlobal", 1, 0),
                  I("Pop", 0, 0), I("GetGlobal", 2, 0), I("Call", 0, 0),
                  I("GetGlobal", 3, 0), I("Call", 0, 0), I("GetGlobal", 4, 0),
                  I("Call", 0, 0), I("Pop", 0, 0), I("Pop", 0, 0),
                  I("Pop", 0, 0), I("GetGlobal", 6, 0), I("Call", 0, 0),
                  I("DefineGlobal", 5, 0), I("GetGlobal", 7, 0), I("Print", 0, 0),
                  I("Nil", 0, 0), I("Return", 0, 0)>>]>>]

Programs ==
  <<P_share_return, P_share_block, P_nested_upvalue, P_classes,
     P_invoke_field, P_init_return, P_strings, P_overflow,
     P_arity, P_equal, P_selfref, P_control,
     P_compile_error, P_compile_error_fn, P_prop_noninstance, P_super_nonclass,
     P_clock, P_panic, P_undef_set, P_undef_get,
     P_call_noncallable, P_invoke_noninstance, P_setprop_noninstance, P_negate_err,
     P_binop_err, P_class_args, P_local, P_nested_err,
     P_natives, P_truthy, P_deep,
     P_concat,
     P_upvalues,
     P_closure_line,
     P_resume_capture,
     P_close_two,
     P_class_line,
     P_invoke_args,
     P_garbage>>

ProgId(name) == CHOOSE i \in DOMAIN Programs : Programs[i].name = name

\* Chunk::code
Code(chunk) == chunk.code

\* The constants of a function at the moment the compiler allocates it.
ResolveConstant(a, k, fnh) ==
  CASE k.c = "num" -> Fin(k.n, k.d)
    [] k.c = "str" -> Ref("String", a.strings[k.s])
    [] k.c = "fn" -> Ref("Function", fnh[k.n])

\* compile: the allocator events of program p from event i on; fnh holds the
\* handles of the functions allocated so far.
RECURSIVE CompileEvents(_, _, _, _)
CompileEvents(a, p, i, fnh) ==
  IF i > Len(p.events)
    THEN [a |-> a, fnh |-> fnh]
    ELSE IF p.events[i].e = "intern"
      THEN IF p.events[i].s \in DOMAIN a.strings
             THEN CompileEvents(a, p, i + 1, fnh)
             ELSE CompileEvents(AllocatorIntern(a, p.events[i].s), p, i + 1, fnh)
      ELSE LET f == p.fns[p.events[i].f]
           IN  CompileEvents(
                 AllocatorAlloc(a, LoxFunction(
                                     f.arity, [code |-> f.code],
                                     [j \in DOMAIN f.constants |->
                                        ResolveConstant(a, f.constants[j], fnh)],
                                     IF f.script THEN 0 ELSE a.strings[f.name],
                                     f.upvalues)),
                 p, i + 1, Append(fnh, AllocIndex(a)))

\* compile (compiler.rs): Err(CompileError) when had_error, else the handle of
\* the script function; the allocator keeps what was interned and allocated.
Compile(a, pid) ==
  LET Result(p, r) ==
        [a |-> r.a, ok |-> ~p.had_error,
         function |-> IF p.had_error THEN 0 ELSE Last(r.fnh)]
  IN  Result(Programs[pid], CompileEvents(a, Programs[pid], 1, <<>>))

(***************************************************************************)
(* Display of numbers ({} on usize and on f64).  A finite f64 with an      *)
(* integral value prints as that integer; other finite values are shown as *)
(* the exact fraction the model holds.                                     *)
(***************************************************************************)
Digit(n) == SubSeq("0123456789", n + 1, n + 1)

RECURSIVE NatStr(_)
NatStr(n) == IF n < 10 THEN Digit(n) ELSE NatStr(n \div 10) \o Digit(n % 10)

NumStr(x) ==
  CASE x.s = "nan" -> "NaN"
    [] x.s = "pinf" -> "inf"
    [] x.s = "ninf" -> "-inf"
    [] x.s = "fin" ->
         (IF x.n < 0 THEN "-" ELSE "") \o NatStr(Abs(x.n))
           \o (IF x.d = 1 THEN "" ELSE "/" \o NatStr(x.d))

(***************************************************************************)
(* The VM (vm.rs).  `vm` is a record of the Vm's fields: a (the allocator),*)
(* frames, stack, globals, open_upvalues, init_string; stress (the build   *)
(* feature debug_stress_gc); status and err (what interpret returned or    *)
(* how the process ended) and out (the lines printed on stdout).           *)
(***************************************************************************)
MAX_FRAMES == 64

CallFrame(closure, slot) == [closure |-> closure, ip |-> 0, slot |-> slot]

\* Allocator::deref
Deref(vm, h) == vm.a.objects[h + 1].obj

\* downcast_ref().unwrap() succeeds
IsObj(vm, h, t) == h < Len(vm.a.objects) /\ vm.a.objects[h + 1].obj.t = t

Panic(vm) == [vm EXCEPT !.status = "Panic"]

\* Vm::runtime_error
RuntimeError(vm, msg) == [vm EXCEPT !.status = "RuntimeError", !.err = msg]

Push(vm, v) == [vm EXCEPT !.stack = Append(@, v)]

\* Vm::peek; callers check Len(vm.stack) > n first (the index panics otherwise)
Peek(vm, n) == vm.stack[Len(vm.stack) - n]

\* Vm::set_at
SetAt(vm, n, v) == [vm EXCEPT !.stack[Len(vm.stack) - n] = v]

PopN(vm, n) == [vm EXCEPT !.stack = SubSeq(@, 1, Len(@) - n)]

current_frame(vm) == Last(vm.frames)

current_closure(vm) == Deref(vm, current_frame(vm).closure)

CurrentFunction(vm) == Deref(vm, current_closure(vm).function)

\* Chunk::read_constant / Chunk::read_string (chunk.rs)
HasConstant(vm, c) == c < Len(CurrentFunction(vm).constants)

ReadConstant(vm, c) == CurrentFunction(vm).constants[c + 1]

HasString(vm, c) == HasConstant(vm, c) /\ ReadConstant(vm, c).k = "String"

\* A mark_roots that forgets the value stack.
MarkRootsWithoutStack(vm) ==
  LET a2 == MarkObjects(vm.a, [i \in DOMAIN vm.frames |-> vm.frames[i].closure])
      a3 == MarkObjects(a2, vm.open_upvalues)
      a4 == MarkTable(a3, vm.globals)
  IN  MarkObject(a4, vm.init_string)

\* Vm::mark_roots
MarkRoots(vm) ==
  LET a1 == MarkValues(vm.a, vm.stack)
      a2 == MarkObjects(a1, [i \in DOMAIN vm.frames |-> vm.frames[i].closure])
      a3 == MarkObjects(a2, vm.open_upvalues)
      a4 == MarkTable(a3, vm.globals)
  IN  MarkObject(a4, vm.init_string)

\* Vm::mark_and_sweep; the status is "Hung" when the collection never ends.
MarkAndSweep(vm) ==
  IF ShouldGc(vm.a, vm.stress)
    THEN LET Collected(r) ==
               IF r.done THEN [vm EXCEPT !.a = r.a]
                         ELSE [vm EXCEPT !.a = r.a, !.status = "Hung"]
         IN  Collected(CollectGarbage(MarkRoots(vm)))
    ELSE vm

\* Vm::alloc and Vm::intern, after mark_and_sweep has returned.
AllocAfterGc(g, object) == [g EXCEPT !.a = AllocatorAlloc(g.a, object)]

InternAfterGc(g, name) == [g EXCEPT !.a = AllocatorIntern(g.a, name)]

\* The text Print writes for a value (TraceFormatter, Trace::format).
FormatFunction(vm, f) ==
  IF Deref(vm, f.name).s = "" THEN "<script>" ELSE "<fn " \o Deref(vm, f.name).s \o ">"

Format(vm, v) ==
  CASE v.k = "Nil" -> "nil"
    [] v.k = "Bool" -> IF v.b THEN "true" ELSE "false"
    [] v.k = "Number" -> NumStr(v)
    [] v.k = "NativeFunction" -> "<native fn>"
    [] v.k = "String" -> Deref(vm, v.h).s
    [] v.k = "Function" -> FormatFunction(vm, Deref(vm, v.h))
    [] v.k = "Closure" -> FormatFunction(vm, Deref(vm, Deref(vm, v.h).function))
    [] v.k = "Class" -> Deref(vm, Deref(vm, v.h).name).s
    [] v.k = "Instance" -> Deref(vm, Deref(vm, Deref(vm, v.h).class).name).s \o " instance"
    [] v.k = "BoundMethod" ->
         FormatFunction(vm, Deref(vm, Deref(vm, Deref(vm, v.h).method).function))

\* A capture_upvalue whose search never finds an open upvalue.
CaptureFoundNever(vm, location) == {}

\* Vm::capture_upvalue: the vm after the call; CaptureResult is the handle.
CaptureFound(vm, location) ==
  {i \in DOMAIN vm.open_upvalues : Deref(vm, vm.open_upvalues[i]).location = location}

\* A capture that puts the upvalue it allocates at the head of the list.
capture_upvaluePrepends(vm, location) ==
  IF CaptureFound(vm, location) # {}
    THEN vm
    ELSE LET Alloc(g) ==
               IF g.status = "Hung" THEN g
               ELSE [AllocAfterGc(g, ObjUpvalue(location))
                       EXCEPT !.open_upvalues = <<AllocIndex(g.a)>> \o @]
         IN  Alloc(MarkAndSweep(vm))

\* A capture that does not look for an open upvalue of the location.
capture_upvalueNoScan(vm, location) ==
  LET Alloc(g) ==
        IF g.status = "Hung" THEN g
        ELSE [AllocAfterGc(g, ObjUpvalue(location))
                EXCEPT !.open_upvalues = Append(@, AllocIndex(g.a))]
  IN  Alloc(MarkAndSweep(vm))

capture_upvalue(vm, location) ==
  IF CaptureFound(vm, location) # {}
    THEN vm
    ELSE LET Alloc(g) ==
               IF g.status = "Hung" THEN g
               ELSE [AllocAfterGc(g, ObjUpvalue(location))
                       EXCEPT !.open_upvalues = Append(@, AllocIndex(g.a))]
         IN  Alloc(MarkAndSweep(vm))

CaptureResult(vm, location) ==
  IF CaptureFound(vm, location) # {}
    THEN vm.open_upvalues[Min(CaptureFound(vm, location))]
    ELSE AllocIndex(MarkAndSweep(vm).a)

\* Vm::close_upvalues, from position i (1-based) of the open list.
RECURSIVE CloseFrom(_, _, _)
CloseFrom(vm, last, i) ==
  IF i > Len(vm.open_upvalues)
    THEN vm
    ELSE LET u == vm.open_upvalues[i]
             location == Deref(vm, u).location
         IN  IF location >= last
               THEN IF location >= Len(vm.stack)
                      THEN Panic([vm EXCEPT !.open_upvalues =
                                    SubSeq(@, 1, i - 1) \o SubSeq(@, i + 1, Len(@))])
                      ELSE CloseFrom(
                             [vm EXCEPT !.open_upvalues =
                                          SubSeq(@, 1, i - 1) \o SubSeq(@, i + 1, Len(@)),
                                        !.a.objects[u + 1].obj.closed =
                                          Some(vm.stack[location + 1])],
                             last, i)
               ELSE CloseFrom(vm, last, i + 1)

\* A close_upvalues that closes every open upvalue, whatever the threshold.
close_upvaluesAll(vm, last) == CloseFrom(vm, 0, 1)

close_upvalues(vm, last) == CloseFrom(vm, last, 1)

\* Vm::call
call(vm, closure_ref, arg_count) ==
  LET function == Deref(vm, Deref(vm, closure_ref).function)
  IN  IF arg_count # function.arity
        THEN RuntimeError(vm, "Expected " \o NatStr(function.arity) \o " arguments but got "
                                  \o NatStr(arg_count) \o ".")
        ELSE IF Len(vm.frames) = MAX_FRAMES
          THEN RuntimeError(vm, "Stack overflow.")
          ELSE IF Len(vm.stack) < arg_count + 1 THEN Panic(vm)
          ELSE [vm EXCEPT !.frames =
                  Append(@, CallFrame(closure_ref, Len(vm.stack) - arg_count - 1))]

\* fn clock (vm.rs); t is the CPU time read.
clock(vm, args, t) == Num(t)

\* terms.join(", ") over the formatted arguments, from argument i on
RECURSIVE JoinTerms(_, _, _)
JoinTerms(vm, args, i) ==
  IF i > Len(args) THEN ""
  ELSE Format(vm, args[i]) \o (IF i < Len(args) THEN ", " ELSE "") \o JoinTerms(vm, args, i + 1)

\* fn lox_panic (vm.rs): never returns; err is the panic's message.
lox_panic(vm, args) ==
  [vm EXCEPT !.status = "Panic", !.err = "panic: " \o JoinTerms(vm, args, 1)]

\* A native call that pushes the result without removing the callee and its
\* arguments.
NativeCallKeepsArgs(vm, f, arg_count, t) ==
  LET left == Len(vm.stack) - arg_count
  IN  IF f = "clock"
        THEN Push(vm, clock(vm, SubSeq(vm.stack, left + 1, Len(vm.stack)), t))
        ELSE lox_panic(vm, SubSeq(vm.stack, left + 1, Len(vm.stack)))

\* Vm::call_value (Value::NativeFunction): the native gets the slice
\* stack[left..]; the stack is cut to left - 1 values and the result pushed.
NativeCall(vm, f, arg_count, t) ==
  LET left == Len(vm.stack) - arg_count
  IN  IF f = "clock"
        THEN Push([vm EXCEPT !.stack = SubSeq(@, 1, left - 1)],
                  clock(vm, SubSeq(vm.stack, left + 1, Len(vm.stack)), t))
        ELSE lox_panic(vm, SubSeq(vm.stack, left + 1, Len(vm.stack)))

\* A call_value that takes any number of arguments for a class without init.
call_valueAnyArgs(vm, arg_count, t) ==
  IF Len(vm.stack) <= arg_count THEN Panic(vm)
  ELSE
  LET callee == Peek(vm, arg_count)
  IN  CASE callee.k = "BoundMethod" ->
             LET bound == Deref(vm, callee.h)
             IN  call(SetAt(vm, arg_count, bound.receiver), bound.method, arg_count)
        [] callee.k = "Class" ->
             LET Construct(v1, class) ==
                   IF TableHas(class.methods, v1.init_string)
                     THEN IF class.methods[v1.init_string].k = "Closure"
                            THEN call(v1, class.methods[v1.init_string].h, arg_count)
                            ELSE RuntimeError(v1, "Initializer is not closure")
                     ELSE v1
                 Alloc(g) ==
                   IF g.status = "Hung" THEN g
                   ELSE Construct(SetAt(AllocAfterGc(g, Instance(callee.h)), arg_count,
                                        Ref("Instance", AllocIndex(g.a))),
                                  Deref(g, callee.h))
             IN  Alloc(MarkAndSweep(vm))
        [] callee.k = "Closure" -> call(vm, callee.h, arg_count)
        [] callee.k = "NativeFunction" -> NativeCall(vm, callee.f, arg_count, t)
        [] OTHER -> RuntimeError(vm, "Can only call functions and classes.")

\* Vm::call_value
call_value(vm, arg_count, t) ==
  IF Len(vm.stack) <= arg_count THEN Panic(vm)
  ELSE
  LET callee == Peek(vm, arg_count)
  IN  CASE callee.k = "BoundMethod" ->
             LET bound == Deref(vm, callee.h)
             IN  call(SetAt(vm, arg_count, bound.receiver), bound.method, arg_count)
        [] callee.k = "Class" ->
             LET Construct(v1, class) ==
                   IF TableHas(class.methods, v1.init_string)
                     THEN IF class.methods[v1.init_string].k = "Closure"
                            THEN call(v1, class.methods[v1.init_string].h, arg_count)
                            ELSE RuntimeError(v1, "Initializer is not closure")
                     ELSE IF arg_count # 0
                       THEN RuntimeError(v1, "Expected 0 arguments but got "
                                            \o NatStr(arg_count) \o ".")
                       ELSE v1
                 Alloc(g) ==
                   IF g.status = "Hung" THEN g
                   ELSE Construct(SetAt(AllocAfterGc(g, Instance(callee.h)), arg_count,
                                        Ref("Instance", AllocIndex(g.a))),
                                  Deref(g, callee.h))
             IN  Alloc(MarkAndSweep(vm))
        [] callee.k = "Closure" -> call(vm, callee.h, arg_count)
        [] callee.k = "NativeFunction" -> NativeCall(vm, callee.f, arg_count, t)
        [] OTHER -> RuntimeError(vm, "Can only call functions and classes.")

\* Vm::invoke_from_class
invoke_from_class(vm, class, name, arg_count) ==
  LET methods == Deref(vm, class).methods
  IN  IF TableHas(methods, name)
        THEN IF methods[name].k = "Closure"
               THEN call(vm, methods[name].h, arg_count)
               ELSE Panic(vm)
        ELSE RuntimeError(vm, "Undefined property '" \o Deref(vm, name).s \o "'.")

\* An invoke that looks for the class method before the field.
invokeMethodFirst(vm, name, arg_count, t) ==
  IF Len(vm.stack) <= arg_count THEN Panic(vm)
  ELSE
  LET receiver == Peek(vm, arg_count)
  IN  IF receiver.k = "Instance"
        THEN LET instance == Deref(vm, receiver.h)
             IN  IF TableHas(Deref(vm, instance.class).methods, name)
                      \/ ~TableHas(instance.fields, name)
                   THEN invoke_from_class(vm, instance.class, name, arg_count)
                   ELSE call_value(SetAt(vm, arg_count, instance.fields[name]), arg_count, t)
        ELSE RuntimeError(vm, "Only instances have methods.")

\* Vm::invoke
invoke(vm, name, arg_count, t) ==
  IF Len(vm.stack) <= arg_count THEN Panic(vm)
  ELSE
  LET receiver == Peek(vm, arg_count)
  IN  IF receiver.k = "Instance"
        THEN LET instance == Deref(vm, receiver.h)
             IN  IF TableHas(instance.fields, name)
                   THEN call_value(SetAt(vm, arg_count, instance.fields[name]), arg_count, t)
                   ELSE invoke_from_class(vm, instance.class, name, arg_count)
        ELSE RuntimeError(vm, "Only instances have methods.")

\* Vm::bind_method
bind_method(vm, class, name) ==
  LET methods == Deref(vm, class).methods
  IN  IF TableHas(methods, name)
        THEN IF vm.stack = <<>> \/ methods[name].k # "Closure" THEN Panic(vm)
             ELSE LET receiver == Peek(vm, 0)
                      Alloc(g) ==
                        IF g.status = "Hung" THEN g
                        ELSE Push(PopN(AllocAfterGc(g, BoundMethod(receiver, methods[name].h)), 1),
                                  Ref("BoundMethod", AllocIndex(g.a)))
                  IN  Alloc(MarkAndSweep(vm))
        ELSE RuntimeError(vm, "Undefined property '" \o Deref(vm, name).s \o "'.")

\* Vm::define_method
define_method(vm, name) ==
  IF Len(vm.stack) < 2 \/ Peek(vm, 1).k # "Class" THEN Panic(vm)
  ELSE PopN([vm EXCEPT !.a.objects[Peek(vm, 1).h + 1].obj.methods =
                         TableInsert(@, name, Peek(vm, 0))], 1)

(***************************************************************************)
(* The instructions of Vm::run.  Each operator takes the vm after the      *)
(* instruction pointer of the current frame has been incremented.          *)
(***************************************************************************)
Fetch(vm) == Code(CurrentFunction(vm).chunk)[current_frame(vm).ip + 1]

Advance(vm) == [vm EXCEPT !.frames[Len(vm.frames)].ip = @ + 1]

DivideOp(a, b) == NumDiv(a, b)

GreaterOp(a, b) == Bool(NumGreater(a, b))

LessOp(a, b) == Bool(NumLess(a, b))

MultiplyOp(a, b) == NumMul(a, b)

SubstractOp(a, b) == NumSub(a, b)

\* The closures handed to binary_op, by the instruction that hands them.
BinaryFn(f, a, b) ==
  CASE f = "Add" -> NumAdd(a, b)
    [] f = "Divide" -> DivideOp(a, b)
    [] f = "Greater" -> GreaterOp(a, b)
    [] f = "Less" -> LessOp(a, b)
    [] f = "Multiply" -> MultiplyOp(a, b)
    [] f = "Substract" -> SubstractOp(a, b)

\* Vm::binary_op
binary_op(vm, f) ==
  IF Len(vm.stack) < 2 THEN Panic(vm)
  ELSE IF Peek(vm, 0).k = "Number" /\ Peek(vm, 1).k = "Number"
    THEN Push(PopN(vm, 2), BinaryFn(f, Peek(vm, 1), Peek(vm, 0)))
    ELSE RuntimeError(PopN(vm, 2), "Operands must be numbers.")

ExecAdd(vm) ==
  IF Len(vm.stack) < 2 THEN Panic(vm)
  ELSE LET b == Peek(vm, 0)
           a == Peek(vm, 1)
           popped == PopN(vm, 2)
       IN  IF a.k = "Number" /\ b.k = "Number"
             THEN Push(popped, NumAdd(a, b))
             ELSE IF a.k = "String" /\ b.k = "String"
               THEN LET result == Deref(vm, a.h).s \o Deref(vm, b.h).s
                        Intern(g) ==
                          IF g.status = "Hung" THEN g
                          ELSE Push(InternAfterGc(g, result),
                                    Ref("String", InternIndex(g.a, result)))
                    IN  Intern(MarkAndSweep(popped))
               ELSE RuntimeError(vm, "Operands must be two numbers or two strings.")

ExecClass(vm, constant) ==
  IF ~HasString(vm, constant) THEN Panic(vm)
  ELSE LET Alloc(g) ==
             IF g.status = "Hung" THEN g
             ELSE Push(AllocAfterGc(g, LoxClass(ReadConstant(vm, constant).h)),
                       Ref("Class", AllocIndex(g.a)))
       IN  Alloc(MarkAndSweep(vm))

ExecCloseUpvalue(vm) ==
  IF vm.stack = <<>> THEN Panic(vm)
  ELSE LET closed == close_upvalues(vm, Len(vm.stack) - 1)
       IN  IF closed.status = "Panic" THEN closed ELSE PopN(closed, 1)

\* The loop of Instruction::Closure over the function's upvalues, from
\* upvalue i (1-based) on; acc holds the upvalues collected so far.
RECURSIVE ClosureUpvalues(_, _, _, _)
ClosureUpvalues(vm, function, i, acc) ==
  IF i > Len(Deref(vm, function).upvalues)
    THEN [vm |-> vm, upvalues |-> acc]
    ELSE LET upvalue == Deref(vm, function).upvalues[i]
         IN  IF upvalue.is_local
               THEN LET location == current_frame(vm).slot + upvalue.index
                        Captured(captured, reference) ==
                          IF captured.status = "Hung"
                            THEN [vm |-> captured, upvalues |-> acc]
                            ELSE ClosureUpvalues(captured, function, i + 1,
                                                 Append(acc, reference))
                    IN  Captured(capture_upvalue(vm, location), CaptureResult(vm, location))
               ELSE IF upvalue.index >= Len(current_closure(vm).upvalues)
                 THEN [vm |-> Panic(vm), upvalues |-> acc]
                 ELSE ClosureUpvalues(vm, function, i + 1,
                        Append(acc, current_closure(vm).upvalues[upvalue.index + 1]))

ExecClosure(vm, constant) ==
  IF ~HasConstant(vm, constant) \/ ReadConstant(vm, constant).k # "Function"
    THEN Panic(vm)
    ELSE LET function == ReadConstant(vm, constant).h
             Alloc(g, upvalues) ==
               IF g.status = "Hung" THEN g
               ELSE Push(AllocAfterGc(g, [Closure(function) EXCEPT !.upvalues = upvalues]),
                         Ref("Closure", AllocIndex(g.a)))
             Captured(r) ==
               IF r.vm.status # "Running" THEN r.vm
               ELSE Alloc(MarkAndSweep(r.vm), r.upvalues)
         IN  Captured(ClosureUpvalues(vm, function, 1, <<>>))

ExecCall(vm, arg_count, t) == call_value(vm, arg_count, t)

ExecConstant(vm, constant) ==
  IF ~HasConstant(vm, constant) THEN Panic(vm) ELSE Push(vm, ReadConstant(vm, constant))

ExecDefineGlobal(vm, constant) ==
  IF ~HasString(vm, constant) \/ vm.stack = <<>> THEN Panic(vm)
  ELSE [PopN(vm, 1) EXCEPT !.globals =
          TableInsert(@, ReadConstant(vm, constant).h, Peek(vm, 0))]

ExecEqual(vm) ==
  IF Len(vm.stack) < 2 THEN Panic(vm)
  ELSE LET a == Peek(vm, 0)
           b == Peek(vm, 1)
       IN  Push(PopN(vm, 2), Bool(ValueEq(a, b)))

ExecFalse(vm) == Push(vm, Bool(FALSE))

ExecGetGlobal(vm, constant) ==
  IF ~HasString(vm, constant) THEN Panic(vm)
  ELSE LET global_name == ReadConstant(vm, constant).h
       IN  IF TableHas(vm.globals, global_name)
             THEN Push(vm, vm.globals[global_name])
             ELSE RuntimeError(vm, "Undefined variable '" \o Deref(vm, global_name).s \o "'.")

ExecGetLocal(vm, slot) ==
  LET i == slot + current_frame(vm).slot
  IN  IF i >= Len(vm.stack) THEN Panic(vm) ELSE Push(vm, vm.stack[i + 1])

\* A GetProperty that looks in the class's methods before the fields.
ExecGetPropertyMethodFirst(vm, constant) ==
  IF vm.stack = <<>> THEN Panic(vm)
  ELSE IF Peek(vm, 0).k = "Instance"
    THEN LET instance == Deref(vm, Peek(vm, 0).h)
         IN  IF ~HasString(vm, constant) THEN Panic(vm)
             ELSE LET property_name == ReadConstant(vm, constant).h
                  IN  IF TableHas(Deref(vm, instance.class).methods, property_name)
                        THEN bind_method(vm, instance.class, property_name)
                        ELSE IF TableHas(instance.fields, property_name)
                          THEN Push(PopN(vm, 1), instance.fields[property_name])
                          ELSE bind_method(vm, instance.class, property_name)
    ELSE RuntimeError(vm, "Only instances have properties.")

ExecGetProperty(vm, constant) ==
  IF vm.stack = <<>> THEN Panic(vm)
  ELSE IF Peek(vm, 0).k = "Instance"
    THEN LET instance == Deref(vm, Peek(vm, 0).h)
         IN  IF ~HasString(vm, constant) THEN Panic(vm)
             ELSE LET property_name == ReadConstant(vm, constant).h
                  IN  IF TableHas(instance.fields, property_name)
                        THEN Push(PopN(vm, 1), instance.fields[property_name])
                        ELSE bind_method(vm, instance.class, property_name)
    ELSE RuntimeError(vm, "Only instances have properties.")

ExecGetSuper(vm, constant) ==
  IF ~HasString(vm, constant) \/ vm.stack = <<>> THEN Panic(vm)
  ELSE IF Peek(vm, 0).k = "Class"
    THEN bind_method(PopN(vm, 1), Peek(vm, 0).h, ReadConstant(vm, constant).h)
    ELSE Panic(PopN(vm, 1))

ExecGetUpvalue(vm, slot) ==
  IF slot >= Len(current_closure(vm).upvalues) THEN Panic(vm)
  ELSE LET upvalue == Deref(vm, current_closure(vm).upvalues[slot + 1])
       IN  IF upvalue.closed.some
             THEN Push(vm, upvalue.closed.v)
             ELSE IF upvalue.location >= Len(vm.stack) THEN Panic(vm)
                  ELSE Push(vm, vm.stack[upvalue.location + 1])

\* An Inherit that pops the subclass without copying the methods.
ExecInheritNoCopy(vm) ==
  IF Len(vm.stack) < 2 THEN Panic(vm)
  ELSE IF Peek(vm, 0).k = "Class" /\ Peek(vm, 1).k = "Class"
    THEN PopN(vm, 1)
    ELSE RuntimeError(vm, "Superclass must be a class.")

ExecInherit(vm) ==
  IF Len(vm.stack) < 2 THEN Panic(vm)
  ELSE IF Peek(vm, 0).k = "Class" /\ Peek(vm, 1).k = "Class"
    THEN LET methods == Deref(vm, Peek(vm, 1).h).methods
         IN  PopN([vm EXCEPT !.a.objects[Peek(vm, 0).h + 1].obj.methods = methods], 1)
    ELSE RuntimeError(vm, "Superclass must be a class.")

ExecInvoke(vm, constant, arg_count, t) ==
  IF ~HasString(vm, constant) THEN Panic(vm)
  ELSE invoke(vm, ReadConstant(vm, constant).h, arg_count, t)

ExecJump(vm, offset) == [vm EXCEPT !.frames[Len(vm.frames)].ip = @ + offset]

ExecJumpIfFalse(vm, offset) ==
  IF vm.stack = <<>> THEN Panic(vm)
  ELSE IF is_falsey(Peek(vm, 0)) THEN ExecJump(vm, offset) ELSE vm

ExecLoop(vm, offset) ==
  IF current_frame(vm).ip < offset + 1 THEN Panic(vm)
  ELSE [vm EXCEPT !.frames[Len(vm.frames)].ip = @ - (offset + 1)]

ExecMethod(vm, constant) ==
  IF ~HasString(vm, constant) THEN Panic(vm)
  ELSE define_method(vm, ReadConstant(vm, constant).h)

ExecNegate(vm) ==
  IF vm.stack = <<>> THEN Panic(vm)
  ELSE IF Peek(vm, 0).k = "Number"
    THEN Push(PopN(vm, 1), NumNeg(Peek(vm, 0)))
    ELSE RuntimeError(vm, "Operand must be a number.")

ExecNil(vm) == Push(vm, Nil)

ExecNot(vm) ==
  IF vm.stack = <<>> THEN Panic(vm)
  ELSE Push(PopN(vm, 1), Bool(is_falsey(Peek(vm, 0))))

ExecPop(vm) == IF vm.stack = <<>> THEN Panic(vm) ELSE PopN(vm, 1)

ExecPrint(vm) ==
  IF vm.stack = <<>> THEN Panic(vm)
  ELSE [PopN(vm, 1) EXCEPT !.out = Append(@, Format(vm, Peek(vm, 0)))]

ExecReturn(vm) ==
  LET frame == Last(vm.frames)
      popped == [vm EXCEPT !.frames = Front(@)]
  IN  IF vm.stack = <<>> THEN Panic(popped)
      ELSE LET return_value == Peek(vm, 0)
               closed == close_upvalues(PopN(popped, 1), frame.slot)
           IN  IF closed.status = "Panic" THEN closed
               ELSE IF closed.frames = <<>>
                 THEN [closed EXCEPT !.status = "Ok"]
                 ELSE Push([closed EXCEPT !.stack =
                              SubSeq(@, 1, Min({Len(@), frame.slot}))],
                           return_value)

\* A SetGlobal that reports the undefined name but leaves the entry it
\* inserted.
ExecSetGlobalKeepsEntry(vm, constant) ==
  IF ~HasString(vm, constant) \/ vm.stack = <<>> THEN Panic(vm)
  ELSE LET global_name == ReadConstant(vm, constant).h
           inserted == [vm EXCEPT !.globals = TableInsert(@, global_name, Peek(vm, 0))]
       IN  IF TableHas(vm.globals, global_name)
             THEN inserted
             ELSE RuntimeError(inserted,
                               "Undefined variable '" \o Deref(vm, global_name).s \o "'.")

\* Instruction::SetGlobal: the value is inserted; when insert reports that
\* the key was new, the entry is removed again and the error raised.
ExecSetGlobal(vm, constant) ==
  IF ~HasString(vm, constant) \/ vm.stack = <<>> THEN Panic(vm)
  ELSE LET global_name == ReadConstant(vm, constant).h
           inserted == [vm EXCEPT !.globals = TableInsert(@, global_name, Peek(vm, 0))]
       IN  IF TableHas(vm.globals, global_name)
             THEN inserted
             ELSE RuntimeError([inserted EXCEPT !.globals = TableRemove(@, global_name)],
                               "Undefined variable '" \o Deref(vm, global_name).s \o "'.")

ExecSetLocal(vm, slot) ==
  LET i == slot + current_frame(vm).slot
  IN  IF vm.stack = <<>> \/ i >= Len(vm.stack) THEN Panic(vm)
      ELSE [vm EXCEPT !.stack[i + 1] = Peek(vm, 0)]

ExecSetProperty(vm, constant) ==
  IF Len(vm.stack) < 2 THEN Panic(vm)
  ELSE IF Peek(vm, 1).k = "Instance"
    THEN IF ~HasString(vm, constant) THEN Panic(vm)
         ELSE LET value == Peek(vm, 0)
                  instance == Peek(vm, 1).h
              IN  Push(PopN([vm EXCEPT !.a.objects[instance + 1].obj.fields =
                               TableInsert(@, ReadConstant(vm, constant).h, value)], 2),
                       value)
    ELSE RuntimeError(vm, "Only instances have fields.")

\* A SetUpvalue that writes the stack slot of the upvalue's location whether
\* the upvalue is closed or not.
ExecSetUpvalueToSlot(vm, slot) ==
  IF slot >= Len(current_closure(vm).upvalues) \/ vm.stack = <<>> THEN Panic(vm)
  ELSE LET upvalue == current_closure(vm).upvalues[slot + 1]
       IN  IF Deref(vm, upvalue).location >= Len(vm.stack) THEN Panic(vm)
           ELSE [vm EXCEPT !.stack[Deref(vm, upvalue).location + 1] = Peek(vm, 0)]

ExecSetUpvalue(vm, slot) ==
  IF slot >= Len(current_closure(vm).upvalues) \/ vm.stack = <<>> THEN Panic(vm)
  ELSE LET upvalue == current_closure(vm).upvalues[slot + 1]
           value == Peek(vm, 0)
       IN  IF ~Deref(vm, upvalue).closed.some
             THEN IF Deref(vm, upvalue).location >= Len(vm.stack) THEN Panic(vm)
                  ELSE [vm EXCEPT !.stack[Deref(vm, upvalue).location + 1] = value]
             ELSE [vm EXCEPT !.a.objects[upvalue + 1].obj.closed = Some(value)]

ExecSuperInvoke(vm, constant, arg_count) ==
  IF ~HasString(vm, constant) \/ vm.stack = <<>> THEN Panic(vm)
  ELSE IF Peek(vm, 0).k = "Class"
    THEN invoke_from_class(PopN(vm, 1), Peek(vm, 0).h, ReadConstant(vm, constant).h,
                           arg_count)
    ELSE Panic(PopN(vm, 1))

ExecTrue(vm) == Push(vm, Bool(TRUE))

\* Vm::run: the match on the instruction fetched, the ip already moved past
\* it.  t is what clock returns if the instruction calls it.
Execute(vm, i, t) ==
  CASE i.op = "Add" -> ExecAdd(vm)
    [] i.op = "Class" -> ExecClass(vm, i.a)
    [] i.op = "CloseUpvalue" -> ExecCloseUpvalue(vm)
    [] i.op = "Closure" -> ExecClosure(vm, i.a)
    [] i.op = "Call" -> ExecCall(vm, i.a, t)
    [] i.op = "Constant" -> ExecConstant(vm, i.a)
    [] i.op = "DefineGlobal" -> ExecDefineGlobal(vm, i.a)
    [] i.op = "Divide" -> binary_op(vm, "Divide")
    [] i.op = "Equal" -> ExecEqual(vm)
    [] i.op = "False" -> ExecFalse(vm)
    [] i.op = "GetGlobal" -> ExecGetGlobal(vm, i.a)
    [] i.op = "GetLocal" -> ExecGetLocal(vm, i.a)
    [] i.op = "GetProperty" -> ExecGetProperty(vm, i.a)
    [] i.op = "GetSuper" -> ExecGetSuper(vm, i.a)
    [] i.op = "GetUpvalue" -> ExecGetUpvalue(vm, i.a)
    [] i.op = "Greater" -> binary_op(vm, "Greater")
    [] i.op = "Inherit" -> ExecInherit(vm)
    [] i.op = "Invoke" -> ExecInvoke(vm, i.a, i.b, t)
    [] i.op = "Jump" -> ExecJump(vm, i.a)
    [] i.op = "JumpIfFalse" -> ExecJumpIfFalse(vm, i.a)
    [] i.op = "Less" -> binary_op(vm, "Less")
    [] i.op = "Loop" -> ExecLoop(vm, i.a)
    [] i.op = "Method" -> ExecMethod(vm, i.a)
    [] i.op = "Multiply" -> binary_op(vm, "Multiply")
    [] i.op = "Negate" -> ExecNegate(vm)
    [] i.op = "Nil" -> ExecNil(vm)
    [] i.op = "Not" -> ExecNot(vm)
    [] i.op = "Pop" -> ExecPop(vm)
    [] i.op = "Print" -> ExecPrint(vm)
    [] i.op = "Return" -> ExecReturn(vm)
    [] i.op = "SetGlobal" -> ExecSetGlobal(vm, i.a)
    [] i.op = "SetLocal" -> ExecSetLocal(vm, i.a)
    [] i.op = "SetProperty" -> ExecSetProperty(vm, i.a)
    [] i.op = "SetUpvalue" -> ExecSetUpvalue(vm, i.a)
    [] i.op = "Substract" -> binary_op(vm, "Substract")
    [] i.op = "SuperInvoke" -> ExecSuperInvoke(vm, i.a, i.b)
    [] i.op = "True" -> ExecTrue(vm)

\* Vm::run: n turns of its loop, or fewer when run returns before.  The n
\* turns are halved so that the evaluation nests log n deep.
RECURSIVE run(_, _, _)
run(vm, n, t) ==
  IF n = 0 \/ vm.status # "Running" THEN vm
  ELSE IF n = 1 THEN Execute(Advance(vm), Fetch(vm), t)
  ELSE run(run(vm, n \div 2, t), n - (n \div 2), t)

(***************************************************************************)
(* Vm::new and Vm::interpret.                                              *)
(***************************************************************************)
\* Vm::define_native
define_native(vm, name, native) ==
  [vm EXCEPT !.a = AllocatorIntern(vm.a, name),
             !.globals = TableInsert(@, InternIndex(vm.a, name), NativeFunction(native))]

\* Vm::new, in the build with (stress) or without the feature debug_stress_gc.
VmNew(stress) ==
  LET vm == [a |-> AllocatorIntern(AllocatorNew, "init"),
             frames |-> <<>>, stack |-> <<>>, globals |-> <<>>,
             open_upvalues |-> <<>>,
             init_string |-> InternIndex(AllocatorNew, "init"),
             stress |-> stress, status |-> "Idle", err |-> "", out |-> <<>>]
  IN  define_native(define_native(vm, "clock", "clock"), "panic", "lox_panic")

\* An interpret that clears the value stack when compile fails.
interpretClearsStack(vm, pid) ==
  LET Alloc(g, function) ==
        IF g.status = "Hung" THEN g
        ELSE [AllocAfterGc(g, Closure(function)) EXCEPT
                !.frames = Append(@, CallFrame(AllocIndex(g.a), 0)),
                !.status = "Running"]
      Compiled(c) ==
        IF ~c.ok THEN [vm EXCEPT !.a = c.a, !.err = "", !.status = "CompileError",
                                 !.stack = <<>>]
        ELSE Alloc(MarkAndSweep(Push([vm EXCEPT !.a = c.a, !.err = ""],
                                     Ref("Function", c.function))),
                   c.function)
  IN  Compiled(Compile(vm.a, pid))

\* Vm::interpret up to the call of run; status is "Running" when run starts.
interpret(vm, pid) ==
  LET Alloc(g, function) ==
        IF g.status = "Hung" THEN g
        ELSE [AllocAfterGc(g, Closure(function)) EXCEPT
                !.frames = Append(@, CallFrame(AllocIndex(g.a), 0)),
                !.status = "Running"]
      Compiled(c) ==
        IF ~c.ok THEN [vm EXCEPT !.a = c.a, !.err = "", !.status = "CompileError"]
        ELSE Alloc(MarkAndSweep(Push([vm EXCEPT !.a = c.a, !.err = ""],
                                     Ref("Function", c.function))),
                   c.function)
  IN  Compiled(Compile(vm.a, pid))

(***************************************************************************)
(* The command line (main.rs).  main.rs holds the program's entry point    *)
(* with the expression interpreter it runs: its own Value (Nil, Bool,      *)
(* Number), Chunk, Parser and Vm.  A file's contents are given with the    *)
(* chunk Parser::compile builds from them.                                 *)
(***************************************************************************)
\* 1 + 2
F_add ==
  [name |-> "F_add", had_error |-> FALSE,
   errors |-> <<>>,
   code |-> <<I("Constant", 0, 0), I("Constant", 1, 0), I("Add", 0, 0), I("Return", 0, 0)>>,
   constants |-> <<Num(1), Num(2)>>,
   lines |-> <<1, 1, 1, 1>>]

\* (1 - 2) * 6 / 3
F_arith ==
  [name |-> "F_arith", had_error |-> FALSE,
   errors |-> <<>>,
   code |-> <<I("Constant", 0, 0), I("Constant", 1, 0), I("Substract", 0, 0), I("Constant", 2, 0), I("Multiply", 0, 0), I("Constant", 3, 0), I("Divide", 0, 0), I("Return", 0, 0)>>,
   constants |-> <<Num(1), Num(2), Num(6), Num(3)>>,
   lines |-> <<1, 1, 1, 1, 1, 1, 1, 1>>]

\* -(4)
F_negate ==
  [name |-> "F_negate", had_error |-> FALSE,
   errors |-> <<>>,
   code |-> <<I("Constant", 0, 0), I("Negate", 0, 0), I("Return", 0, 0)>>,
   constants |-> <<Num(4)>>,
   lines |-> <<1, 1, 1>>]

\* !nil
F_not_nil ==
  [name |-> "F_not_nil", had_error |-> FALSE,
   errors |-> <<>>,
   code |-> <<I("Nil", 0, 0), I("Not", 0, 0), I("Return", 0, 0)>>,
   constants |-> <<>>,
   lines |-> <<1, 1, 1>>]

\* !0
F_not_zero ==
  [name |-> "F_not_zero", had_error |-> FALSE,
   errors |-> <<>>,
   code |-> <<I("Constant", 0, 0), I("Not", 0, 0), I("Return", 0, 0)>>,
   constants |-> <<Num(0)>>,
   lines |-> <<1, 1, 1>>]

\* 1 == 1
F_equal ==
  [name |-> "F_equal", had_error |-> FALSE,
   errors |-> <<>>,
   code |-> <<I("Constant", 0, 0), I("Constant", 1, 0), I("Equal", 0, 0), I("Return", 0, 0)>>,
   constants |-> <<Num(1), Num(1)>>,
   lines |-> <<1, 1, 1, 1>>]

\* true != false
F_not_equal ==
  [name |-> "F_not_equal", had_error |-> FALSE,
   errors |-> <<>>,
   code |-> <<I("True", 0, 0), I("False", 0, 0), I("Equal", 0, 0), I("Not", 0, 0), I("Return", 0, 0)>>,
   constants |-> <<>>,
   lines |-> <<1, 1, 1, 1, 1>>]

\* 1 < 2
F_less ==
  [name |-> "F_less", had_error |-> FALSE,
   errors |-> <<>>,
   code |-> <<I("Constant", 0, 0), I("Constant", 1, 0), I("Less", 0, 0), I("Return", 0, 0)>>,
   constants |-> <<Num(1), Num(2)>>,
   lines |-> <<1, 1, 1, 1>>]

\* 2 >= 1
F_greater_equal ==
  [name |-> "F_greater_equal", had_error |-> FALSE,
   errors |-> <<>>,
   code |-> <<I("Constant", 0, 0), I("Constant", 1, 0), I("Less", 0, 0), I("Not", 0, 0), I("Return", 0, 0)>>,
   constants |-> <<Num(2), Num(1)>>,
   lines |-> <<1, 1, 1, 1, 1>>]

\* 1 <= 2
F_less_equal ==
  [name |-> "F_less_equal", had_error |-> FALSE,
   errors |-> <<>>,
   code |-> <<I("Constant", 0, 0), I("Constant", 1, 0), I("Greater", 0, 0), I("Not", 0, 0), I("Return", 0, 0)>>,
   constants |-> <<Num(1), Num(2)>>,
   lines |-> <<1, 1, 1, 1, 1>>]

\* 1 / 0
F_divide_zero ==
  [name |-> "F_divide_zero", had_error |-> FALSE,
   errors |-> <<>>,
   code |-> <<I("Constant", 0, 0), I("Constant", 1, 0), I("Divide", 0, 0), I("Return", 0, 0)>>,
   constants |-> <<Num(1), Num(0)>>,
   lines |-> <<1, 1, 1, 1>>]

\* -true
F_negate_err ==
  [name |-> "F_negate_err", had_error |-> FALSE,
   errors |-> <<>>,
   code |-> <<I("True", 0, 0), I("Negate", 0, 0), I("Return", 0, 0)>>,
   constants |-> <<>>,
   lines |-> <<1, 1, 1>>]

\* 1 + nil
F_binop_err ==
  [name |-> "F_binop_err", had_error |-> FALSE,
   errors |-> <<>>,
   code |-> <<I("Constant", 0, 0), I("Nil", 0, 0), I("Add", 0, 0), I("Return", 0, 0)>>,
   constants |-> <<Num(1)>>,
   lines |-> <<1, 1, 1, 1>>]

\* 1 +
F_compile_err ==
  [name |-> "F_compile_err", had_error |-> TRUE,
   errors |-> <<"[line 1] Error at end: Expect expression.">>,
   code |-> <<I("Constant", 0, 0), I("Add", 0, 0), I("Return", 0, 0)>>,
   constants |-> <<Num(1)>>,
   lines |-> <<1, 1, 1>>]

\* (1
F_unclosed ==
  [name |-> "F_unclosed", had_error |-> TRUE,
   errors |-> <<"[line 1] Error at end: Expect ')' after expression.">>,
   code |-> <<I("Constant", 0, 0), I("Return", 0, 0)>>,
   constants |-> <<Num(1)>>,
   lines |-> <<1, 1>>]

\* (an empty file)
F_empty ==
  [name |-> "F_empty", had_error |-> TRUE,
   errors |-> <<"[line 1] Error at end: Expect expression.">>,
   code |-> <<I("Return", 0, 0)>>,
   constants |-> <<>>,
   lines |-> <<1>>]

Files ==
  <<F_add,
    F_arith,
    F_negate,
    F_not_nil,
    F_not_zero,
    F_equal,
    F_not_equal,
    F_less,
    F_greater_equal,
    F_less_equal,
    F_divide_zero,
    F_negate_err,
    F_binop_err,
    F_compile_err,
    F_unclosed,
    F_empty>>

FileId(name) == CHOOSE i \in DOMAIN Files : Files[i].name = name

\* Value::is_falsy (main.rs)
is_falsy(v) == IF v.k = "Bool" THEN ~v.b ELSE TRUE

\* impl fmt::Display for Value (main.rs)
Display(v) ==
  CASE v.k = "Nil" -> "nil"
    [] v.k = "Bool" -> (IF v.b THEN "true" ELSE "false")
    [] v.k = "Number" -> NumStr(v)

\* #[derive(PartialEq)] on Value (main.rs)
MainValueEq(x, y) ==
  IF x.k # y.k THEN FALSE
  ELSE IF x.k = "Number" THEN NumEq(x, y) ELSE x = y

\* {:>w} and {:0w} (text on the right), {:<w} (text on the left).
RECURSIVE PadLeft(_, _, _)
PadLeft(text, width, fill) ==
  IF Len(text) >= width THEN text ELSE PadLeft(fill \o text, width, fill)

RECURSIVE PadRight(_, _)
PadRight(text, width) ==
  IF Len(text) >= width THEN text ELSE PadRight(text \o " ", width)

Mnemonic(op) ==
  CASE op = "Add" -> "OP_ADD"
    [] op = "Divide" -> "OP_DIVIDE"
    [] op = "Equal" -> "OP_EQUAL"
    [] op = "False" -> "OP_FALSE"
    [] op = "Greater" -> "OP_GREATER"
    [] op = "Less" -> "OP_LESS"
    [] op = "Multiply" -> "OP_MULTIPLY"
    [] op = "Negate" -> "OP_NEGATE"
    [] op = "Not" -> "OP_NOT"
    [] op = "Nil" -> "OP_NIL"
    [] op = "Return" -> "OP_RETURN"
    [] op = "Substract" -> "OP_SUBSTRACT"
    [] op = "True" -> "OP_TRUE"

\* Chunk::disassemble_instruction: the text it prints.
disassemble_instruction(chunk, offset) ==
  LET instruction == chunk.code[offset + 1]
      line == chunk.lines[offset + 1]
  IN  PadLeft(NatStr(offset), 4, "0") \o " "
        \o (IF offset > 0 /\ line = chunk.lines[offset]
              THEN "   | "
              ELSE PadLeft(NatStr(line), 4, " ") \o " ")
        \o (IF instruction.op = "Constant"
              THEN PadRight("OP_CONSTANT", 16) \o " "
                     \o PadLeft(NatStr(instruction.a), 4, " ") \o " "
                     \o Display(chunk.constants[instruction.a + 1])
              ELSE Mnemonic(instruction.op))
        \o "\n"

RECURSIVE DisassembleFrom(_, _)
DisassembleFrom(chunk, offset) ==
  IF offset >= Len(chunk.code) THEN ""
  ELSE disassemble_instruction(chunk, offset) \o DisassembleFrom(chunk, offset + 1)

\* Chunk::disassemble
disassemble(chunk, name) == "== " \o name \o " ==\n" \o DisassembleFrom(chunk, 0)

RECURSIVE JoinLines(_)
JoinLines(texts) ==
  IF texts = <<>> THEN "" ELSE Head(texts) \o "\n" \o JoinLines(Tail(texts))

RECURSIVE StackDump(_)
StackDump(values) ==
  IF values = <<>> THEN ""
  ELSE "[" \o Display(Head(values)) \o "]" \o StackDump(Tail(values))

\* The process before main is entered with args_len arguments (the program's
\* name included).  code is what fs::read_to_string gave, result what
\* interpret returned, chunk, ip and stack are the fields of main.rs's Vm.
CliStart(args_len) ==
  [pc |-> "main", args_len |-> args_len, code |-> None, result |-> "",
   chunk |-> [code |-> <<>>, constants |-> <<>>, lines |-> <<>>], ip |-> 0,
   stack |-> <<>>, stdout |-> "", stderr |-> "", exit_code |-> None, lines |-> 0]

CliOff == [CliStart(0) EXCEPT !.pc = "off"]

\* process::exit
process_exit(c, code) == [c EXCEPT !.pc = "exited", !.exit_code = Some(code)]

\* What the caller of interpret does with its result: run_file exits (lines
\* 905-908), repl drops it and reads the next line (line 892).
InterpretReturn(c, result) ==
  IF c.args_len = 2
    THEN process_exit([c EXCEPT !.result = result], IF result = "Ok" THEN 65 ELSE 70)
    ELSE [c EXCEPT !.result = result, !.pc = "repl"]

\* fn interpret (main.rs) up to the call of vm.run(): Parser::new,
\* parser.compile()? and Vm::new(parser.chunk).
MainInterpret(c, f) ==
  IF Files[f].had_error
    THEN InterpretReturn([c EXCEPT !.stderr = @ \o JoinLines(Files[f].errors)],
                         "CompileError")
    ELSE LET chunk == [code |-> Files[f].code, constants |-> Files[f].constants,
                       lines |-> Files[f].lines]
         IN  [c EXCEPT !.stdout = @ \o disassemble(chunk, "code"),
                       !.chunk = chunk, !.ip = 0, !.stack = <<>>,
                       !.result = "", !.pc = "run"]

\* Vm::runtime_error (main.rs), followed by the return of run with the error.
MainRuntimeError(c, msg) ==
  InterpretReturn(
    [c EXCEPT !.stderr = @ \o msg \o "\n[line " \o NatStr(c.chunk.lines[c.ip])
                           \o "] in script\n"],
    "RuntimeError")

\* Vm::binary_op (main.rs)
MainBinaryOp(c, f) ==
  LET value_b == c.stack[Len(c.stack)]
      value_a == c.stack[Len(c.stack) - 1]
      popped == [c EXCEPT !.stack = SubSeq(@, 1, Len(@) - 2)]
  IN  IF value_a.k = "Number" /\ value_b.k = "Number"
        THEN [popped EXCEPT !.stack = Append(@, BinaryFn(f, value_a, value_b))]
        ELSE MainRuntimeError(popped, "Operands must be numbers.")

\* One turn of the loop of Vm::run (main.rs).
MainRun(c0) ==
  LET instruction == c0.chunk.code[c0.ip + 1]
      c == [c0 EXCEPT !.ip = @ + 1,
                      !.stdout = @ \o StackDump(c0.stack) \o "\n"
                                   \o disassemble_instruction(c0.chunk, c0.ip)]
      top == c.stack[Len(c.stack)]
  IN  CASE instruction.op = "Add" -> MainBinaryOp(c, "Add")
        [] instruction.op = "Constant" ->
             [c EXCEPT !.stack = Append(@, c.chunk.constants[instruction.a + 1])]
        [] instruction.op = "Divide" -> MainBinaryOp(c, "Divide")
        [] instruction.op = "Equal" ->
             [c EXCEPT !.stack =
                Append(SubSeq(@, 1, Len(@) - 2),
                       Bool(MainValueEq(top, c.stack[Len(c.stack) - 1])))]
        [] instruction.op = "False" -> [c EXCEPT !.stack = Append(@, Bool(FALSE))]
        [] instruction.op = "Greater" -> MainBinaryOp(c, "Greater")
        [] instruction.op = "Less" -> MainBinaryOp(c, "Less")
        [] instruction.op = "Multiply" -> MainBinaryOp(c, "Multiply")
        [] instruction.op = "Negate" ->
             IF top.k = "Number"
               THEN [c EXCEPT !.stack = Append(Front(@), NumNeg(top))]
               ELSE MainRuntimeError(c, "Operand must be a number.")
        [] instruction.op = "Nil" -> [c EXCEPT !.stack = Append(@, Nil)]
        [] instruction.op = "Not" ->
             [c EXCEPT !.stack = Append(Front(@), Bool(is_falsy(top)))]
        [] instruction.op = "Return" ->
             InterpretReturn([c EXCEPT !.stack = Front(@),
                                       !.stdout = @ \o Display(top) \o "\n"],
                             "Ok")
        [] instruction.op = "Substract" -> MainBinaryOp(c, "Substract")
        [] instruction.op = "True" -> [c EXCEPT !.stack = Append(@, Bool(TRUE))]

(***************************************************************************)
(* The hash table of table.rs: open addressing with linear probing over    *)
(* `capacity` entries (a power of two), tombstones left by delete.  `t` is *)
(* a record of the Table's fields; entries[i + 1] is the entry at index i. *)
(* A key is a GcRef<LoxString>: `id` stands for the pointer (GcRef's       *)
(* equality) and `hash` for the hash field of the string it points to.     *)
(* hung is set when the probing loop of find_entry never ends.             *)
(***************************************************************************)
Entry(key, value) == [key |-> key, value |-> value]

\* Table::new
TableNew == [count |-> 0, capacity |-> 0, entries |-> <<>>, hung |-> FALSE]

\* Table::MAX_LOAD applied to a capacity: (capacity as f32 * 0.75) as usize
MaxLoad(capacity) == (capacity * 3) \div 4

\* Table::find_entry from `index` on; `tombstone` is the index of the first
\* tombstone passed, -1 for the null pointer.  The loop has no bound; after
\* `capacity` probes the same entries come again, and -1 is returned for a
\* loop that never ends.
RECURSIVE FindEntryFrom(_, _, _, _, _, _)
FindEntryFrom(entries, capacity, key, index, tombstone, probes) ==
  LET entry == entries[index + 1]
      next == (index + 1) % capacity
  IN  IF probes = capacity THEN -1
      ELSE IF entry.key.some
        THEN IF entry.key.v.id = key.id
               THEN index
               ELSE FindEntryFrom(entries, capacity, key, next, tombstone, probes + 1)
        ELSE IF entry.value = Nil
               THEN IF tombstone # -1 THEN tombstone ELSE index
               ELSE FindEntryFrom(entries, capacity, key, next,
                                  IF tombstone = -1 THEN index ELSE tombstone, probes + 1)

\* Table::find_entry; key.hash & (capacity - 1) with capacity a power of two
find_entry(entries, capacity, key) ==
  FindEntryFrom(entries, capacity, key, key.hash % capacity, -1, 0)

\* Table::adjust_capacity: the loop over the old entries from index i on
RECURSIVE AdjustFrom(_, _, _, _)
AdjustFrom(t, entries, capacity, i) ==
  IF i = t.capacity THEN [count |-> 0, entries |-> entries, hung |-> FALSE]
  ELSE IF ~t.entries[i + 1].key.some THEN AdjustFrom(t, entries, capacity, i + 1)
  ELSE LET Moved(dest) ==
             IF dest = -1 THEN [count |-> 0, entries |-> entries, hung |-> TRUE]
             ELSE LET Rest(r) == [r EXCEPT !.count = @ + 1]
                  IN  Rest(AdjustFrom(t, [entries EXCEPT ![dest + 1] = t.entries[i + 1]],
                                      capacity, i + 1))
       IN  Moved(find_entry(entries, capacity, t.entries[i + 1].key.v))

\* An adjust_capacity that keeps the count of the old array.
adjust_capacityKeepsCount(t, capacity) ==
  LET Adjusted(r) ==
        [count |-> t.count, capacity |-> capacity, entries |-> r.entries,
         hung |-> t.hung \/ r.hung]
  IN  Adjusted(AdjustFrom(t, [i \in 1..capacity |-> Entry(None, Nil)], capacity, 0))

\* Table::adjust_capacity
adjust_capacity(t, capacity) ==
  LET Adjusted(r) ==
        [count |-> r.count, capacity |-> capacity, entries |-> r.entries,
         hung |-> t.hung \/ r.hung]
  IN  Adjusted(AdjustFrom(t, [i \in 1..capacity |-> Entry(None, Nil)], capacity, 0))

\* Table::set: the table after the call and the value returned
TableGrown(t) ==
  IF t.count + 1 > MaxLoad(t.capacity)
    THEN adjust_capacity(t, IF t.capacity < 8 THEN 8 ELSE t.capacity * 2)
    ELSE t

\* Table::set once the entry of the key is found: index e
SetEntry(t, e, key, value) ==
  IF e = -1 THEN [t |-> [t EXCEPT !.hung = TRUE], ret |-> FALSE]
  ELSE LET is_new_key == ~t.entries[e + 1].key.some
       IN  [t |-> [t EXCEPT !.count = IF is_new_key /\ t.entries[e + 1].value = Nil
                                        THEN @ + 1 ELSE @,
                            !.entries[e + 1] = Entry(Some(key), value)],
            ret |-> is_new_key]

set(t, key, value) ==
  LET Grown(g) ==
        IF g.hung THEN [t |-> g, ret |-> FALSE]
        ELSE SetEntry(g, find_entry(g.entries, g.capacity, key), key, value)
  IN  Grown(TableGrown(t))

\* Table::get
get(t, key) ==
  IF t.count = 0 THEN None
  ELSE LET Found(e) ==
             IF e = -1 \/ ~t.entries[e + 1].key.some THEN None
             ELSE Some(t.entries[e + 1].value)
       IN  Found(find_entry(t.entries, t.capacity, key))

\* Table::find_string from `index` on: the key found, None at an empty entry
\* that was never used, and hung |-> TRUE for a loop that never ends (after
\* `capacity` probes the same entries come again).  The id of a key stands
\* for the characters of its string.
RECURSIVE FindStringFrom(_, _, _, _)
FindStringFrom(t, s, index, probes) ==
  LET entry == t.entries[index + 1]
      next == (index + 1) % t.capacity
  IN  IF probes = t.capacity THEN [hung |-> TRUE, ret |-> None]
      ELSE IF entry.key.some /\ entry.key.v.id = s
        THEN [hung |-> FALSE, ret |-> Some(entry.key.v)]
      ELSE IF ~entry.key.some /\ entry.value = Nil
        THEN [hung |-> FALSE, ret |-> None]
      ELSE FindStringFrom(t, s, next, probes + 1)

\* Table::find_string
find_string(t, s, hash) ==
  IF t.count = 0 THEN [hung |-> FALSE, ret |-> None]
  ELSE FindStringFrom(t, s, hash % t.capacity, 0)

\* A delete that empties the entry instead of leaving a tombstone.
deleteNoTombstone(t, key) ==
  IF t.count = 0 THEN [t |-> t, ret |-> FALSE]
  ELSE LET Found(e) ==
             IF e = -1 THEN [t |-> [t EXCEPT !.hung = TRUE], ret |-> FALSE]
             ELSE IF ~t.entries[e + 1].key.some THEN [t |-> t, ret |-> FALSE]
             ELSE [t |-> [t EXCEPT !.entries[e + 1] = Entry(None, Nil)],
                   ret |-> TRUE]
       IN  Found(find_entry(t.entries, t.capacity, key))

\* Table::delete: the table after the call and the value returned
delete(t, key) ==
  IF t.count = 0 THEN [t |-> t, ret |-> FALSE]
  ELSE LET Found(e) ==
             IF e = -1 THEN [t |-> [t EXCEPT !.hung = TRUE], ret |-> FALSE]
             ELSE IF ~t.entries[e + 1].key.some THEN [t |-> t, ret |-> FALSE]
             ELSE [t |-> [t EXCEPT !.entries[e + 1] = Entry(None, Bool(TRUE))],
                   ret |-> TRUE]
       IN  Found(find_entry(t.entries, t.capacity, key))

\* Gc::remove_white_strings (gc.rs) over Table::iter: IterTable::next walks
\* the entries from `ptr` to the end of the array it was given when the loop
\* started, and the body deletes the key it yields when the string is not
\* marked (`marked` is the set of the ids of the marked keys).  examined is
\* the sequence of the entry indices next has looked at.
RECURSIVE RemoveWhiteFrom(_, _, _, _, _)
RemoveWhiteFrom(t, marked, ptr, end, examined) ==
  IF ptr = end THEN [t |-> t, examined |-> examined]
  ELSE LET entry == t.entries[ptr + 1]
       IN  IF entry.key.some /\ entry.key.v.id \notin marked
             THEN RemoveWhiteFrom(delete(t, entry.key.v).t, marked, ptr + 1, end,
                                  Append(examined, ptr))
             ELSE RemoveWhiteFrom(t, marked, ptr + 1, end, Append(examined, ptr))

remove_white_strings(t, marked) == RemoveWhiteFrom(t, marked, 0, t.capacity, <<>>)

(***************************************************************************)
(* compiler.rs: the single-pass compiler.  The scanner (scanner.rs) is an  *)
(* external collaborator: its output, the token stream, is the input here. *)
(* A token is its kind, its lexeme and its line; the parser record holds   *)
(* the Parser's fields, the chain of Compilers as a sequence (the last one *)
(* is self.compiler, the one before it its enclosing compiler), the        *)
(* functions handed to the allocator (fns), what was written to stderr,    *)
(* and a log of the diagnostics reported and the runs of synchronize.      *)
(* Every declaration and statement is modelled; the expressions are the    *)
(* numbers, variables, assignments, groupings, calls, '+' and '<'.         *)
(***************************************************************************)
Token(kind, lexeme, line) == [kind |-> kind, lexeme |-> lexeme, line |-> line]

synthetic(lexeme) == Token("Error", lexeme, 0)

\* Scanner::scan_token: the next token of the stream, Eof once it is used up.
scan_token(tokens, pos) ==
  IF pos < Len(tokens) THEN tokens[pos + 1] ELSE Token("Eof", "", 1)

PrecNone == 0
PrecAssignment == 1
PrecOr == 2
PrecAnd == 3
PrecComparison == 5
PrecTerm == 6
PrecCall == 9

\* Precedence::next
PrecNext(precedence) == IF precedence = 10 THEN 0 ELSE precedence + 1

\* The rows of the rule table of Parser::new for the token kinds of the
\* modelled expressions; every other kind of the inputs has
\* (None, None, P::None).
get_rule(kind) ==
  CASE kind = "LeftParen" ->
         [prefix |-> "grouping", infix |-> "call", precedence |-> PrecCall]
    [] kind = "Plus" ->
         [prefix |-> "None", infix |-> "binary", precedence |-> PrecTerm]
    [] kind = "Less" ->
         [prefix |-> "None", infix |-> "binary", precedence |-> PrecComparison]
    [] kind = "Identifier" ->
         [prefix |-> "variable", infix |-> "None", precedence |-> PrecNone]
    [] kind = "And" ->
         [prefix |-> "None", infix |-> "and_op", precedence |-> PrecAnd]
    [] kind = "Or" ->
         [prefix |-> "None", infix |-> "or_op", precedence |-> PrecOr]
    [] kind = "Number" ->
         [prefix |-> "number", infix |-> "None", precedence |-> PrecNone]
    [] OTHER ->
         [prefix |-> "None", infix |-> "None", precedence |-> PrecNone]

LOCAL_COUNT == 256

Local(name, depth) == [name |-> name, depth |-> depth, is_captured |-> FALSE]

\* Compiler::new.  declared is the specification's view of the scopes: one
\* set of names per open scope of this function, the innermost last, the
\* first being the scope of depth 0.
CompilerNew(kind) ==
  [function_type |-> kind, scope_depth |-> 0,
   locals |-> <<Local(IF kind \in {"Method", "Initializer"}
                      THEN synthetic("this") ELSE synthetic(""), 0)>>,
   function |-> [arity |-> 0, name |-> "", upvalues |-> <<>>,
                 constants |-> <<>>, code |-> <<>>],
   declared |-> <<{}>>]

\* Parser::new
ParserNew(tokens) ==
  [tokens |-> tokens, pos |-> 0,
   compilers |-> <<CompilerNew("Script")>>,
   class_compilers |-> <<>>,
   current |-> synthetic(""), previous |-> synthetic(""),
   had_error |-> FALSE, panic_mode |-> FALSE,
   resolver_errors |-> <<>>,
   fns |-> <<>>, stderr |-> <<>>, log |-> <<>>, declares |-> <<>>,
   ret |-> 0, frames |-> <<>>, result |-> "Compiling"]

Compiler(p) == p.compilers[Len(p.compilers)]

Returning(p, ret) == [p EXCEPT !.ret = ret]

check(p, kind) == p.current.kind = kind

LogEntry(e, p) ==
  [e |-> e, previous |-> p.previous.kind, current |-> p.current.kind]

\* Parser::error_at, as it would be if it did not return early in panic mode.
error_atUnsuppressed(p, token, msg) ==
  [p EXCEPT !.had_error = TRUE,
            !.panic_mode = TRUE,
            !.stderr = Append(@,
                "[line " \o ToString(token.line) \o "] Error"
                \o (CASE token.kind = "Eof" -> " at end"
                      [] token.kind = "Error" -> ""
                      [] OTHER -> " at '" \o token.lexeme \o "'")
                \o ": " \o msg),
            !.log = Append(@, LogEntry("error", p))]

\* Parser::error_at
error_at(p, token, msg) ==
  IF p.panic_mode THEN p
  ELSE [p EXCEPT !.had_error = TRUE,
                 !.panic_mode = TRUE,
                 !.stderr = Append(@,
                     "[line " \o ToString(token.line) \o "] Error"
                     \o (CASE token.kind = "Eof" -> " at end"
                           [] token.kind = "Error" -> ""
                           [] OTHER -> " at '" \o token.lexeme \o "'")
                     \o ": " \o msg),
                 !.log = Append(@, LogEntry("error", p))]

error_at_current(p, msg) == error_at(p, p.current, msg)

error(p, msg) == error_at(p, p.previous, msg)

\* The loop of Parser::advance: scan until a token that is not an Error.
RECURSIVE ScanLoop(_)
ScanLoop(p) ==
  LET Scanned(q) ==
        IF q.current.kind = "Error"
        THEN ScanLoop(error_at_current(q, q.current.lexeme))
        ELSE q
  IN  Scanned([p EXCEPT !.current = scan_token(p.tokens, p.pos),
                        !.pos = IF @ < Len(p.tokens) THEN @ + 1 ELSE @])

\* Parser::advance
advance(p) == ScanLoop([p EXCEPT !.previous = p.current])

\* Parser::consume
consume(p, expected, msg) ==
  IF p.current.kind = expected THEN advance(p) ELSE error_at_current(p, msg)

SyncKinds == {"Class", "Fun", "Var", "For", "If", "While", "Print", "Return"}

\* The log keeps where each turn of synchronize's loop stood.
Visit(p) == [p EXCEPT !.log = Append(@, LogEntry("at", p))]

\* The loop of Parser::synchronize.
RECURSIVE SyncLoop(_)
SyncLoop(p) ==
  IF p.previous.kind = "Eof" THEN p
  ELSE IF p.previous.kind = "Semicolon" THEN p
  ELSE IF p.current.kind \in SyncKinds THEN p
  ELSE SyncLoop(Visit(advance(p)))

\* Parser::synchronize
synchronize(p) ==
  SyncLoop(Visit([p EXCEPT !.panic_mode = FALSE,
                           !.log = Append(@, LogEntry("sync", p))]))

\* Parser::emit: Chunk::write appends the instruction and returns its place.
emit(p, instruction) ==
  [p EXCEPT !.compilers[Len(p.compilers)].function.code = Append(@, instruction),
            !.ret = Len(Compiler(p).function.code)]

\* An emit_return that returns nil from every function.
emit_returnNil(p) == emit(emit(p, I("Nil", 0, 0)), I("Return", 0, 0))

\* Parser::emit_return
emit_return(p) ==
  emit(IF Compiler(p).function_type = "Initializer"
       THEN emit(p, I("GetLocal", 0, 0))
       ELSE emit(p, I("Nil", 0, 0)),
       I("Return", 0, 0))

\* Chunk::add_constant (chunk.rs): push the value, return its index.
add_constant(p, value) ==
  [p EXCEPT !.compilers[Len(p.compilers)].function.constants = Append(@, value),
            !.ret = Len(Compiler(p).function.constants)]

U8_MAX == 255

\* Parser::make_constant, as it would be with an index that wraps instead of
\* being rejected.
make_constantWraps(p, value) ==
  LET Checked(q) == Returning(q, q.ret % (U8_MAX + 1))
  IN  Checked(add_constant(p, value))

\* Parser::make_constant: u8::try_from(index) fails above U8_MAX.
make_constant(p, value) ==
  LET Checked(q) ==
        IF q.ret <= U8_MAX THEN q
        ELSE Returning(error(q, "Too many constants in one chunk."), 0)
  IN  Checked(add_constant(p, value))

\* Parser::emit_constant
emit_constant(p, value) ==
  LET Emitted(q) == emit(q, I("Constant", q.ret, 0))
  IN  Emitted(make_constant(p, value))

\* Parser::identifier_constant: the interned lexeme as a constant.
identifier_constant(p, token) == make_constant(p, KStr(token.lexeme))

\* Parser::begin_scope
begin_scope(p) ==
  [p EXCEPT !.compilers[Len(p.compilers)].scope_depth = @ + 1,
            !.compilers[Len(p.compilers)].declared = Append(@, {})]

\* The loop of Parser::end_scope, for i from locals.len() - 1 down to 0.
RECURSIVE EndScopeLoop(_, _)
EndScopeLoop(p, i) ==
  IF i < 0 THEN p
  ELSE IF Compiler(p).locals[i + 1].depth > Compiler(p).scope_depth
  THEN EndScopeLoop(
         [emit(p, IF Compiler(p).locals[i + 1].is_captured
                  THEN I("CloseUpvalue", 0, 0) ELSE I("Pop", 0, 0))
            EXCEPT !.compilers[Len(p.compilers)].locals = Front(@)],
         i - 1)
  ELSE EndScopeLoop(p, i - 1)

\* An end_scope that leaves the locals of the scope in the compiler and emits
\* nothing.
end_scopeKeepsLocals(p) ==
  [p EXCEPT !.compilers[Len(p.compilers)].scope_depth = @ - 1,
            !.compilers[Len(p.compilers)].declared = Front(@)]

\* Parser::end_scope
end_scope(p) ==
  LET Closed(q) == EndScopeLoop(q, Len(Compiler(q).locals) - 1)
  IN  Closed([p EXCEPT !.compilers[Len(p.compilers)].scope_depth = @ - 1,
                       !.compilers[Len(p.compilers)].declared = Front(@)])

\* Parser::add_local
add_local(p, token) ==
  IF Len(Compiler(p).locals) = LOCAL_COUNT
  THEN error(p, "Too many local variables in function.")
  ELSE [p EXCEPT !.compilers[Len(p.compilers)].locals =
                   Append(@, Local(token, -1))]

\* Compiler::is_local_declared, as it would be if it looked at every local
\* of the function.
RECURSIVE is_local_declaredAnyDepth(_, _, _)
is_local_declaredAnyDepth(compiler, name, i) ==
  IF i = 0 THEN FALSE
  ELSE IF compiler.locals[i].name.lexeme = name.lexeme THEN TRUE
  ELSE is_local_declaredAnyDepth(compiler, name, i - 1)

\* Compiler::is_local_declared: the locals from the last one down; i is the
\* number of locals still to look at.
RECURSIVE is_local_declared(_, _, _)
is_local_declared(compiler, name, i) ==
  IF i = 0 THEN FALSE
  ELSE IF compiler.locals[i].depth # -1
          /\ compiler.locals[i].depth < compiler.scope_depth THEN FALSE
  ELSE IF compiler.locals[i].name.lexeme = name.lexeme THEN TRUE
  ELSE is_local_declared(compiler, name, i - 1)

\* The loop of Compiler::resolve_local: the locals from the last one down.
RECURSIVE FindLocal(_, _, _)
FindLocal(locals, name, i) ==
  IF i = 0 THEN -1
  ELSE IF name.lexeme = locals[i].name.lexeme THEN i - 1
  ELSE FindLocal(locals, name, i - 1)

\* What the log keeps of a declaration: the name, the scope depth, whether
\* this scope, an enclosing scope of the function or an enclosing function
\* already declares the name, what is_local_declared answered (it is not
\* asked at depth 0), whether the parser was in panic mode, and whether
\* Compiler::resolve_local finds the new local under the name afterwards
\* (q is the parser after add_local).
Declares(p, q, name, flagged) ==
  [name |-> name.lexeme,
   depth |-> Compiler(p).scope_depth,
   same |-> name.lexeme \in Last(Compiler(p).declared),
   outer |-> \/ \E i \in 1..(Len(Compiler(p).declared) - 1) :
                   name.lexeme \in Compiler(p).declared[i]
             \/ \E c \in 1..(Len(p.compilers) - 1) :
                   \E i \in 1..Len(p.compilers[c].declared) :
                     name.lexeme \in p.compilers[c].declared[i],
   flagged |-> flagged,
   panic_mode |-> p.panic_mode,
   shadows |-> /\ Len(Compiler(q).locals) = Len(Compiler(p).locals) + 1
               /\ FindLocal(Compiler(q).locals, name, Len(Compiler(q).locals))
                    = Len(Compiler(q).locals) - 1]

\* The log and the specification's view of the scopes after a declaration.
Noted(p, q, flagged) ==
  [q EXCEPT !.declares = Append(@, Declares(p, q, p.previous, flagged)),
            !.compilers[Len(p.compilers)].declared[Len(Compiler(p).declared)] =
                @ \cup {p.previous.lexeme}]

\* Parser::declare_variable
declare_variable(p) ==
  IF Compiler(p).scope_depth = 0 THEN Noted(p, p, FALSE)
  ELSE Noted(p,
             add_local(
               IF is_local_declared(Compiler(p), p.previous, Len(Compiler(p).locals))
               THEN error(p, "Already variable with this name in this scope.")
               ELSE p,
               p.previous),
             is_local_declared(Compiler(p), p.previous, Len(Compiler(p).locals)))

\* Parser::mark_initialized
mark_initialized(p) ==
  IF Compiler(p).scope_depth = 0 THEN p
  ELSE [p EXCEPT !.compilers[Len(p.compilers)].locals[Len(Compiler(p).locals)].depth =
                   Compiler(p).scope_depth]

\* Parser::define_variable
define_variable(p, index) ==
  IF Compiler(p).scope_depth > 0 THEN mark_initialized(p)
  ELSE emit(p, I("DefineGlobal", index, 0))

\* Parser::parse_variable
parse_variable(p, msg) ==
  LET Named(q) ==
        IF Compiler(q).scope_depth > 0 THEN Returning(q, 0)
        ELSE identifier_constant(q, q.previous)
  IN  Named(declare_variable(consume(p, "Identifier", msg)))

\* Compiler::resolve_local on the compiler at place c of the chain; ret is
\* the slot, or -1 for None.
Compiler_resolve_local(p, c, name) ==
  LET Found(i) ==
        IF i >= 0 /\ p.compilers[c].locals[i + 1].depth = -1
        THEN [p EXCEPT !.resolver_errors =
                         Append(@, "Can't read local variable in its own initializer."),
                       !.ret = i]
        ELSE Returning(p, i)
  IN  Found(FindLocal(p.compilers[c].locals, name, Len(p.compilers[c].locals)))

\* The loop of Compiler::add_upvalue from place i (1-based) on: the index of
\* the first pair that is equal, or -1.
FindUpvalue(upvalues, index, is_local, i) ==
  LET equal == {j \in i..Len(upvalues) :
                  upvalues[j].index = index /\ upvalues[j].is_local = is_local}
  IN  IF equal = {} THEN -1 ELSE Min(equal) - 1

\* An add_upvalue that does not look for the pair in the list.
add_upvalueAppends(p, c, index, is_local) ==
  [p EXCEPT !.compilers[c].function.upvalues = Append(@, Upv(index, is_local)),
            !.ret = Len(p.compilers[c].function.upvalues)]

\* Compiler::add_upvalue on the compiler at place c.
add_upvalue(p, c, index, is_local) ==
  LET upvalues == p.compilers[c].function.upvalues
      Found(i) ==
        IF i >= 0 THEN Returning(p, i)
        ELSE IF Len(upvalues) = LOCAL_COUNT
        THEN [p EXCEPT !.resolver_errors =
                         Append(@, "Too many closure variables in function."),
                       !.ret = 0]
        ELSE [p EXCEPT !.compilers[c].function.upvalues =
                         Append(@, Upv(index, is_local)),
                       !.ret = Len(upvalues)]
  IN  Found(FindUpvalue(upvalues, index, is_local, 1))

\* Compiler::resolve_upvalue on the compiler at place c.
RECURSIVE Compiler_resolve_upvalue(_, _, _)
Compiler_resolve_upvalue(p, c, name) ==
  IF c = 1 THEN Returning(p, -1)
  ELSE LET Upper(q) ==
             IF q.ret >= 0 THEN add_upvalue(q, c, q.ret, FALSE) ELSE q
           Enclosing(q) ==
             IF q.ret >= 0
             THEN add_upvalue(
                    [q EXCEPT !.compilers[c - 1].locals[q.ret + 1].is_captured = TRUE],
                    c, q.ret, TRUE)
             ELSE Upper(Compiler_resolve_upvalue(q, c - 1, name))
       IN  Enclosing(Compiler_resolve_local(p, c - 1, name))

\* while let Some(e) = self.resolver_errors.pop() { self.error(e) }
RECURSIVE ReportResolverErrors(_)
ReportResolverErrors(p) ==
  IF p.resolver_errors = <<>> THEN p
  ELSE ReportResolverErrors(
         error([p EXCEPT !.resolver_errors = Front(@)], Last(p.resolver_errors)))

\* Parser::resolve_local
resolve_local(p, name) ==
  ReportResolverErrors(Compiler_resolve_local(p, Len(p.compilers), name))

\* Parser::resolve_upvalue
resolve_upvalue(p, name) ==
  ReportResolverErrors(Compiler_resolve_upvalue(p, Len(p.compilers), name))

\* A patch_jump that measures the offset from the jump itself.
patch_jumpFromJump(p, pos) ==
  [p EXCEPT !.compilers[Len(p.compilers)].function.code[pos + 1].a =
              Len(Compiler(p).function.code) - pos]

\* Parser::patch_jump
patch_jump(p, pos) ==
  LET offset == Len(Compiler(p).function.code) - 1 - pos
      Patched(q, o) ==
        [q EXCEPT !.compilers[Len(q.compilers)].function.code[pos + 1].a = o]
  IN  IF offset <= 65535 THEN Patched(p, offset)
      ELSE Patched(error(p, "Too much code to jump over."), 4095)

\* Parser::emit_loop
emit_loop(p, start_pos) ==
  LET offset == Len(Compiler(p).function.code) - start_pos
  IN  IF offset <= 65535 THEN emit(p, I("Loop", offset, 0))
      ELSE emit(error(p, "Loop body too large."), I("Loop", 65535, 0))

\* Parser::push_compiler
push_compiler(p, kind) ==
  [p EXCEPT !.compilers =
              Append(@, [CompilerNew(kind) EXCEPT !.function.name = p.previous.lexeme])]

\* Parser::pop_compiler, and the allocation of the function it returns:
\* ret is the function's handle.
pop_compiler(p) ==
  LET Taken(q) ==
        [q EXCEPT !.compilers = Front(@),
                  !.fns = Append(@, Compiler(q).function),
                  !.ret = Len(q.fns) + 1]
  IN  Taken(emit_return(p))

\* str::parse::<f64> on the lexemes of the number tokens of the inputs.
ParseF64(lexeme) ==
  CASE lexeme = "0" -> KNum(0, 1)
    [] lexeme = "1" -> KNum(1, 1)
    [] lexeme = "2" -> KNum(2, 1)

\* Parser::number
number(p) == emit_constant(p, ParseF64(p.previous.lexeme))

RECURSIVE expression(_)
RECURSIVE parse_precedence(_, _)

\* Parser::named_variable from the choice of get_op and set_op.
named_variable_emit(p, can_assign, get_op, set_op) ==
  IF can_assign /\ check(p, "Equal")
  THEN emit(expression(advance(p)), set_op)
  ELSE emit(p, get_op)

\* Parser::named_variable after identifier_constant: ret is the index.
named_variable_global(p, can_assign) ==
  named_variable_emit(p, can_assign, I("GetGlobal", p.ret, 0),
                      I("SetGlobal", p.ret, 0))

\* Parser::named_variable after resolve_upvalue: ret is its result.
named_variable_upvalue(p, name, can_assign) ==
  IF p.ret >= 0
  THEN named_variable_emit(p, can_assign, I("GetUpvalue", p.ret, 0),
                           I("SetUpvalue", p.ret, 0))
  ELSE named_variable_global(identifier_constant(p, name), can_assign)

\* Parser::named_variable after resolve_local: ret is its result.
named_variable_local(p, name, can_assign) ==
  IF p.ret >= 0
  THEN named_variable_emit(p, can_assign, I("GetLocal", p.ret, 0),
                           I("SetLocal", p.ret, 0))
  ELSE named_variable_upvalue(resolve_upvalue(p, name), name, can_assign)

\* Parser::named_variable
named_variable(p, name, can_assign) ==
  named_variable_local(resolve_local(p, name), name, can_assign)

\* Parser::variable
variable(p, can_assign) == named_variable(p, p.previous, can_assign)

\* Parser::grouping
grouping(p) ==
  consume(expression(p), "RightParen", "Expect ')' after expression.")

RECURSIVE ArgumentLoop(_, _)

\* Parser::argument_list after an argument: the test of the loop.
argument_list_next(p, count) ==
  IF check(p, "Comma") THEN ArgumentLoop(advance(p), count + 1)
  ELSE Returning(p, count + 1)

\* Parser::argument_list: the check of the count after an argument.
argument_list_count(p, count) ==
  IF count = 255 THEN error(p, "Can't have more than 255 arguments.") ELSE p

\* The loop of Parser::argument_list.
ArgumentLoop(p, count) ==
  argument_list_next(argument_list_count(expression(p), count), count)

\* Parser::argument_list after the arguments: count as u8.
argument_list_end(p) ==
  Returning(consume(p, "RightParen", "Expect ')' after arguments."), p.ret % 256)

\* Parser::argument_list
argument_list(p) ==
  argument_list_end(IF check(p, "RightParen") THEN Returning(p, 0)
                    ELSE ArgumentLoop(p, 0))

\* Parser::call after argument_list: ret is arg_count.
Parser_call_emit(p) == emit(p, I("Call", p.ret, 0))

\* Parser::call
Parser_call(p) == Parser_call_emit(argument_list(p))

\* Parser::binary, for the operators of the modelled expressions.
binary(p) ==
  emit(parse_precedence(p, PrecNext(get_rule(p.previous.kind).precedence)),
       IF p.previous.kind = "Plus" THEN I("Add", 0, 0) ELSE I("Less", 0, 0))

\* Parser::and_op after the emit of false_jump: ret is false_jump.
and_op_jumped(p) ==
  patch_jump(parse_precedence(emit(p, I("Pop", 0, 0)), PrecAnd), p.ret)

\* An and_op that does not emit the Pop of the left operand.
and_opNoPop(p) ==
  patch_jump(parse_precedence(emit(p, I("JumpIfFalse", 65535, 0)), PrecAnd),
             Len(Compiler(p).function.code))

\* Parser::and_op
and_op(p) == and_op_jumped(emit(p, I("JumpIfFalse", 65535, 0)))

\* Parser::or_op after the emit of true_jump: ret is true_jump.
or_op_jumped(p, false_jump) ==
  patch_jump(parse_precedence(emit(patch_jump(p, false_jump), I("Pop", 0, 0)), PrecOr),
             p.ret)

\* Parser::or_op after the emit of false_jump: ret is false_jump.
or_op_false(p) == or_op_jumped(emit(p, I("Jump", 65535, 0)), p.ret)

\* Parser::or_op
or_op(p) == or_op_false(emit(p, I("JumpIfFalse", 65535, 0)))

\* The infix rule of the token in previous.
InfixRule(p) ==
  CASE get_rule(p.previous.kind).infix = "call" -> Parser_call(p)
    [] get_rule(p.previous.kind).infix = "and_op" -> and_op(p)
    [] get_rule(p.previous.kind).infix = "or_op" -> or_op(p)
    [] OTHER -> binary(p)

\* The while loop of Parser::parse_precedence: the infix rules.
RECURSIVE InfixLoop(_, _)
InfixLoop(p, precedence) ==
  IF precedence <= get_rule(p.current.kind).precedence
  THEN InfixLoop(InfixRule(advance(p)), precedence)
  ELSE p

\* The end of Parser::parse_precedence.
parse_precedence_end(p, precedence) ==
  IF precedence <= PrecAssignment /\ check(p, "Equal")
  THEN error(advance(p), "Invalid assignment target.")
  ELSE p

\* Parser::parse_precedence after its advance: the prefix rule of the token
\* in previous and what follows it.
parse_precedence_prefix(p, precedence) ==
  CASE get_rule(p.previous.kind).prefix = "None" ->
         error(p, "Expect expression.")
    [] get_rule(p.previous.kind).prefix = "grouping" ->
         parse_precedence_end(InfixLoop(grouping(p), precedence), precedence)
    [] get_rule(p.previous.kind).prefix = "variable" ->
         parse_precedence_end(
           InfixLoop(variable(p, precedence <= PrecAssignment), precedence),
           precedence)
    [] get_rule(p.previous.kind).prefix = "number" ->
         parse_precedence_end(InfixLoop(number(p), precedence), precedence)

\* Parser::parse_precedence
parse_precedence(p, precedence) ==
  parse_precedence_prefix(advance(p), precedence)

\* Parser::expression
expression(p) == parse_precedence(p, PrecAssignment)

\* Parser::expression_statement
expression_statement(p) ==
  emit(consume(expression(p), "Semicolon", "Expect ';' after expression."),
       I("Pop", 0, 0))

\* Parser::print_statement
print_statement(p) ==
  emit(consume(expression(p), "Semicolon", "Expect ';' after value."),
       I("Print", 0, 0))

\* Parser::var_declaration after parse_variable: the initializer.
var_declaration_value(p) ==
  consume(IF check(p, "Equal") THEN expression(advance(p))
          ELSE emit(p, I("Nil", 0, 0)),
          "Semicolon", "Expect ';' after variable declaration.")

\* Parser::var_declaration after parse_variable: ret is index.
var_declaration_define(p) == define_variable(var_declaration_value(p), p.ret)

\* Parser::var_declaration
var_declaration(p) ==
  var_declaration_define(parse_variable(p, "Expect variable name."))

\* Parser::return_statement: the return of a value.
return_statement_value(p) ==
  emit(consume(expression(IF Compiler(p).function_type = "Initializer"
                          THEN error(p, "Can't return a value from an initializer.")
                          ELSE p),
               "Semicolon", "Expect ';' after return value."),
       I("Return", 0, 0))

\* Parser::return_statement after the check of the function type.
return_statement_body(p) ==
  IF check(p, "Semicolon") THEN emit_return(advance(p))
  ELSE return_statement_value(p)

\* Parser::return_statement
return_statement(p) ==
  return_statement_body(IF Compiler(p).function_type = "Script"
                        THEN error(p, "Can't return from top-level code.")
                        ELSE p)

\* A function of the parser that calls statement or declaration and then goes
\* on is cut at those calls.  frames is the call stack of the cut functions:
\* a frame names the code that runs when the call above it returns, with the
\* locals a and b that code still reads.
Frame(pc, a, b) == [pc |-> pc, a |-> a, b |-> b]

PushFrame(p, pc, a, b) == [p EXCEPT !.frames = Append(@, Frame(pc, a, b))]

Call(p, pc) == PushFrame(p, pc, 0, 0)

\* Parser::if_statement after the condition: ret is then_jump.
if_statement_body(p) ==
  Call(PushFrame(emit(p, I("Pop", 0, 0)), "if_then", p.ret, 0), "statement")

\* Parser::if_statement up to its call of statement for the then branch; a is
\* then_jump.
if_statement(p) ==
  if_statement_body(
    emit(consume(expression(consume(p, "LeftParen", "Expect '(' after 'if'.")),
                 "RightParen", "Expect ')' after condition."),
         I("JumpIfFalse", 65535, 0)))

\* Parser::if_statement from the test for else; a is else_jump.
if_statement_else(p, else_jump) ==
  IF check(p, "Else")
  THEN Call(PushFrame(advance(p), "if_else", else_jump, 0), "statement")
  ELSE patch_jump(p, else_jump)

\* Parser::if_statement after the emit of the jump over the else branch: ret
\* is else_jump.
if_statement_join(p, then_jump) ==
  if_statement_else(emit(patch_jump(p, then_jump), I("Pop", 0, 0)), p.ret)

\* Parser::if_statement after the then branch.
if_statement_then(p, then_jump) ==
  if_statement_join(emit(p, I("Jump", 65535, 0)), then_jump)

\* Parser::if_statement after the else branch.
if_statement_end(p, else_jump) == patch_jump(p, else_jump)

\* Parser::while_statement after the condition: ret is exit_jump.
while_statement_body(p, loop_start) ==
  Call(PushFrame(emit(p, I("Pop", 0, 0)), "while_end", loop_start, p.ret),
       "statement")

\* Parser::while_statement up to its call of statement; a is loop_start and b
\* exit_jump.
while_statement(p) ==
  while_statement_body(
    emit(consume(expression(consume(p, "LeftParen", "Expect '(' after 'while'.")),
                 "RightParen", "Expect ')' after condition."),
         I("JumpIfFalse", 65535, 0)),
    Len(Compiler(p).function.code))

\* Parser::while_statement after the body.
while_statement_end(p, loop_start, exit_jump) ==
  emit(patch_jump(emit_loop(p, loop_start), exit_jump), I("Pop", 0, 0))

\* Parser::for_statement: the call of statement; a is loop_start and b
\* exit_jump, an exit_jump of -1 being Option::None.
for_statement_body(p, loop_start, exit_jump) ==
  Call(PushFrame(p, "for_end", loop_start, exit_jump), "statement")

\* Parser::for_statement after the increment expression.
for_statement_incremented(p, loop_start, exit_jump, body_jump, increment_start) ==
  for_statement_body(
    patch_jump(emit_loop(consume(emit(p, I("Pop", 0, 0)), "RightParen",
                                 "Expect ')' after for clauses."),
                         loop_start),
               body_jump),
    increment_start, exit_jump)

\* Parser::for_statement after the emit of body_jump: ret is body_jump.
for_statement_jumped(p, loop_start, exit_jump) ==
  for_statement_incremented(expression(p), loop_start, exit_jump, p.ret,
                            Len(Compiler(p).function.code))

\* Parser::for_statement: the increment clause.
for_statement_increment(p, loop_start, exit_jump) ==
  IF ~check(p, "RightParen")
  THEN for_statement_jumped(emit(p, I("Jump", 65535, 0)), loop_start, exit_jump)
  ELSE for_statement_body(advance(p), loop_start, exit_jump)

\* Parser::for_statement after the emit of exit_jump: ret is exit_jump.
for_statement_tested(p, loop_start) ==
  for_statement_increment(emit(p, I("Pop", 0, 0)), loop_start, p.ret)

\* Parser::for_statement: the condition clause.
for_statement_condition(p) ==
  IF ~check(p, "Semicolon")
  THEN for_statement_tested(
         emit(consume(expression(p), "Semicolon",
                      "Expect ';' after loop condition."),
              I("JumpIfFalse", 65535, 0)),
         Len(Compiler(p).function.code))
  ELSE for_statement_increment(advance(p), Len(Compiler(p).function.code), -1)

\* Parser::for_statement: the initializer clause.
for_statement_initializer(p) ==
  IF check(p, "Semicolon") THEN advance(p)
  ELSE IF check(p, "Var") THEN var_declaration(advance(p))
  ELSE expression_statement(p)

\* Parser::for_statement up to its call of statement.
for_statement(p) ==
  for_statement_condition(
    for_statement_initializer(
      consume(begin_scope(p), "LeftParen", "Expect '(' after 'for'.")))

\* Parser::for_statement after the body.
for_statement_end(p, loop_start, exit_jump) ==
  end_scope(IF exit_jump >= 0
            THEN emit(patch_jump(emit_loop(p, loop_start), exit_jump),
                      I("Pop", 0, 0))
            ELSE emit_loop(p, loop_start))

\* Parser::statement; the block statement up to its call of block.
statement(p) ==
  CASE check(p, "Print") -> print_statement(advance(p))
    [] check(p, "If") -> if_statement(advance(p))
    [] check(p, "Return") -> return_statement(advance(p))
    [] check(p, "While") -> while_statement(advance(p))
    [] check(p, "For") -> for_statement(advance(p))
    [] check(p, "LeftBrace") ->
         Call(Call(begin_scope(advance(p)), "end_scope"), "block")
    [] OTHER -> expression_statement(p)

\* The parameter loop of Parser::function.
RECURSIVE ParameterLoop(_)
ParameterLoop(p) ==
  LET More(q) == IF check(q, "Comma") THEN ParameterLoop(advance(q)) ELSE q
      Defined(q) == More(define_variable(q, q.ret))
      Counted(q) ==
        Defined(parse_variable(
          IF Compiler(q).function.arity > 255
          THEN error_at_current(q, "Can't have more than 255 parameters.")
          ELSE q,
          "Expect parameter name."))
  IN  Counted([p EXCEPT !.compilers[Len(p.compilers)].function.arity = @ + 1])

\* Parser::function up to its call of block.
Parser_function(p, kind) ==
  LET Body(q) ==
        Call(Call(consume(consume(q, "RightParen", "Expect ')' after parameters."),
                          "LeftBrace", "Expect '{' before function body."),
                  "function_end"),
             "block")
      Parameters(q) ==
        Body(IF ~check(q, "RightParen") THEN ParameterLoop(q) ELSE q)
  IN  Parameters(consume(begin_scope(push_compiler(p, kind)), "LeftParen",
                         "Expect '(' after function name."))

\* Parser::function after the body.
Parser_function_end(p) ==
  LET Closure_(q) == emit(q, I("Closure", q.ret, 0))
      Finish(q) == Closure_(make_constant(q, KFn(q.ret)))
  IN  Finish(pop_compiler(p))

\* Parser::fun_declaration up to its call of function; a is global.
fun_declaration(p) ==
  LET Named(q) ==
        Parser_function(PushFrame(mark_initialized(q), "fun_end", q.ret, 0), "Function")
  IN  Named(parse_variable(p, "Expect function name."))

\* Parser::fun_declaration after the function.
fun_declaration_end(p, global) == define_variable(p, global)

\* Parser::method up to its call of function; a is constant.
method(p) ==
  LET Bodied(q) ==
        Parser_function(PushFrame(q, "method_end", q.ret, 0),
                        IF q.previous.lexeme = "init"
                        THEN "Initializer" ELSE "Method")
      Named(q) == Bodied(identifier_constant(q, q.previous))
  IN  Named(consume(p, "Identifier", "Expect method name."))

\* Parser::method after the function.
method_end(p, constant) == emit(p, I("Method", constant, 0))

\* Parser::class_declaration from the use of the class name before the class
\* body up to its loop over the methods.
class_declaration_body(p, class_name) ==
  Call(Call(consume(named_variable(p, class_name, FALSE),
                    "LeftBrace", "Expect '{' before class body."),
            "class_end"),
       "methods")

\* Parser::class_declaration: the superclass clause after the superclass name.
class_declaration_inherit(p, class_name) ==
  LET HasSuperclass(q) ==
        [q EXCEPT !.class_compilers[Len(q.class_compilers)].has_superclass = TRUE]
      Scoped(q) ==
        define_variable(add_local(begin_scope(q), synthetic("super")), 0)
      Inherited(q) ==
        HasSuperclass(emit(named_variable(Scoped(q), class_name, FALSE),
                           I("Inherit", 0, 0)))
  IN  Inherited(IF class_name.lexeme = p.previous.lexeme
                THEN error(p, "A class can't inherit from itself.")
                ELSE p)

\* Parser::class_declaration from the test for a superclass.
class_declaration_superclass(p, class_name) ==
  IF check(p, "Less")
  THEN class_declaration_body(
         class_declaration_inherit(
           variable(consume(advance(p), "Identifier", "Expect superclass name."),
                    FALSE),
           class_name),
         class_name)
  ELSE class_declaration_body(p, class_name)

\* Parser::class_declaration from the declaration of the class name.
class_declaration_define(p, class_name, name_constant) ==
  class_declaration_superclass(
    [define_variable(emit(declare_variable(p), I("Class", name_constant, 0)),
                     name_constant)
       EXCEPT !.class_compilers = Append(@, [has_superclass |-> FALSE])],
    class_name)

\* Parser::class_declaration after the class name; ret is name_constant.
class_declaration_name(p, class_name) ==
  class_declaration_define(p, class_name, p.ret)

\* Parser::class_declaration up to its loop over the methods.
class_declaration(p) ==
  LET Named(q) ==
        class_declaration_name(identifier_constant(q, q.previous), q.previous)
  IN  Named(consume(p, "Identifier", "Expect class name."))

\* One turn of the loop of Parser::class_declaration over the methods.
class_declaration_methods(p) ==
  IF ~check(p, "RightBrace") /\ ~check(p, "Eof")
  THEN method(Call(p, "methods"))
  ELSE p

\* Parser::class_declaration after the methods.
class_declaration_end(p) ==
  LET Leave(q) == [q EXCEPT !.class_compilers = Front(@)]
      Closed(q) ==
        Leave(IF Last(q.class_compilers).has_superclass THEN end_scope(q)
              ELSE q)
  IN  Closed(emit(consume(p, "RightBrace", "Expect '}' after class body."),
                  I("Pop", 0, 0)))

\* Parser::declaration up to its test of panic_mode.
declaration(p) ==
  CASE check(p, "Class") -> class_declaration(advance(Call(p, "synchronize")))
    [] check(p, "Fun") -> fun_declaration(advance(Call(p, "synchronize")))
    [] check(p, "Var") -> var_declaration(advance(Call(p, "synchronize")))
    [] OTHER -> Call(Call(p, "synchronize"), "statement")

\* Parser::declaration from its test of panic_mode.
declaration_end(p) == IF p.panic_mode THEN synchronize(p) ELSE p

\* One turn of the loop of Parser::block, and the end of block.
block(p) ==
  IF ~check(p, "RightBrace") /\ ~check(p, "Eof")
  THEN declaration(Call(p, "block"))
  ELSE consume(p, "RightBrace", "Expect '}' after block.")

\* The parser before Parser::new.
ParserOff == [ParserNew(<<>>) EXCEPT !.result = "Off"]

(***************************************************************************)
(* The state machine.  The Vm's fields are the first six variables; stress *)
(* is the build; status is "Idle" before the first interpret, "Running"    *)
(* inside Vm::run, "Ok", "CompileError" or "RuntimeError" once interpret   *)
(* has returned, "Panic" when the process has panicked and "Hung" when it  *)
(* is inside a collection that never ends.  lines are the programs given   *)
(* to interpret so far, base is the number of frames the Vm held when the  *)
(* last interpret was called, and reference holds the outcome of the run   *)
(* of the same program in the build without stress, once it is run again   *)
(* in the stress build.                                                    *)
(***************************************************************************)
VARIABLES allocator, frames, stack, globals, open_upvalues, init_string,
          stress, status, err, out, lines, base, reference, cli, table, shadow,
          parser

vm_vars == <<allocator, frames, stack, globals, open_upvalues, init_string,
             stress, status, err, out, lines, base, reference>>

\* The Table of table.rs under test, with the map its calls should have built.
table_vars == <<table, shadow>>

\* What is not part of the Vm of vm.rs.
outside_vm == <<cli, table_vars, parser>>

vars == <<vm_vars, cli, table_vars, parser>>

\* Bound: the number of interpret calls on one Vm (lines typed at the REPL).
MaxLines == 2

\* Bound: the values clock may return, 0..MaxClock.
MaxClock == 1

\* The programs given as the first line (or as the file): all but the one
\* that fills the stack, which runs under SpecDeep.
FileLines == {pid \in DOMAIN Programs : Programs[pid].name # "P_deep"}

\* The lines typed at the REPL after the first.
ReplLines ==
  {pid \in DOMAIN Programs :
     Programs[pid].name \in {"P_local", "P_undef_get", "P_compile_error", "P_closure_line",
                              "P_class_line"}}

VM ==
  [a |-> allocator, frames |-> frames, stack |-> stack, globals |-> globals,
   open_upvalues |-> open_upvalues, init_string |-> init_string,
   stress |-> stress, status |-> status, err |-> err, out |-> out]

Apply(vm) ==
  /\ allocator' = vm.a
  /\ frames' = vm.frames
  /\ stack' = vm.stack
  /\ globals' = vm.globals
  /\ open_upvalues' = vm.open_upvalues
  /\ init_string' = vm.init_string
  /\ stress' = vm.stress
  /\ status' = vm.status
  /\ err' = vm.err
  /\ out' = vm.out

NoReference == [on |-> FALSE, out |-> <<>>, status |-> ""]

InitVm ==
  /\ stress \in BOOLEAN
  /\ allocator = VmNew(stress).a
  /\ frames = VmNew(stress).frames
  /\ stack = VmNew(stress).stack
  /\ globals = VmNew(stress).globals
  /\ open_upvalues = VmNew(stress).open_upvalues
  /\ init_string = VmNew(stress).init_string
  /\ status = VmNew(stress).status
  /\ err = VmNew(stress).err
  /\ out = VmNew(stress).out
  /\ lines = <<>>
  /\ base = 0
  /\ reference = NoReference

TableInit == table = TableNew /\ shadow = <<>>

ParserInit == parser = ParserOff

Init == InitVm /\ cli = CliOff /\ TableInit /\ ParserInit

Returned == status \in {"Idle", "Ok", "CompileError", "RuntimeError"}

\* A call of Vm::interpret on the Vm, from the file runner (first line) or the
\* REPL (later lines).
Interpret ==
  /\ Returned
  /\ ~reference.on
  /\ Len(lines) < MaxLines
  /\ \E pid \in (IF lines = <<>> THEN FileLines ELSE ReplLines) :
       /\ Apply(interpret(VM, pid))
       /\ lines' = Append(lines, pid)
  /\ base' = Len(frames)
  /\ UNCHANGED <<reference, outside_vm>>

\* The same program run from scratch in the stress build, after its run in the
\* build without stress has ended.
Rerun ==
  /\ status \in {"Ok", "CompileError", "RuntimeError", "Panic"}
  /\ ~stress
  /\ ~reference.on
  /\ Len(lines) = 1
  /\ reference' = [on |-> TRUE, out |-> out, status |-> status]
  /\ Apply(interpret(VmNew(TRUE), lines[1]))
  /\ base' = 0
  /\ UNCHANGED <<lines, outside_vm>>

Running(op) == status = "Running" /\ Fetch(VM).op = op

Step(vm) == Apply(vm) /\ UNCHANGED <<lines, base, reference, outside_vm>>

StepAdd == Running("Add") /\ Step(ExecAdd(Advance(VM)))

StepClass == Running("Class") /\ Step(ExecClass(Advance(VM), Fetch(VM).a))

StepCloseUpvalue == Running("CloseUpvalue") /\ Step(ExecCloseUpvalue(Advance(VM)))

StepClosure == Running("Closure") /\ Step(ExecClosure(Advance(VM), Fetch(VM).a))

StepCall ==
  /\ Running("Call")
  /\ \E t \in 0..MaxClock : Step(ExecCall(Advance(VM), Fetch(VM).a, t))

StepConstant == Running("Constant") /\ Step(ExecConstant(Advance(VM), Fetch(VM).a))

StepDefineGlobal ==
  Running("DefineGlobal") /\ Step(ExecDefineGlobal(Advance(VM), Fetch(VM).a))

StepDivide == Running("Divide") /\ Step(binary_op(Advance(VM), "Divide"))

StepEqual == Running("Equal") /\ Step(ExecEqual(Advance(VM)))

StepFalse == Running("False") /\ Step(ExecFalse(Advance(VM)))

StepGetGlobal == Running("GetGlobal") /\ Step(ExecGetGlobal(Advance(VM), Fetch(VM).a))

StepGetLocal == Running("GetLocal") /\ Step(ExecGetLocal(Advance(VM), Fetch(VM).a))

StepGetProperty ==
  Running("GetProperty") /\ Step(ExecGetProperty(Advance(VM), Fetch(VM).a))

StepGetSuper == Running("GetSuper") /\ Step(ExecGetSuper(Advance(VM), Fetch(VM).a))

StepGetUpvalue == Running("GetUpvalue") /\ Step(ExecGetUpvalue(Advance(VM), Fetch(VM).a))

StepGreater == Running("Greater") /\ Step(binary_op(Advance(VM), "Greater"))

StepInherit == Running("Inherit") /\ Step(ExecInherit(Advance(VM)))

StepInvoke ==
  /\ Running("Invoke")
  /\ \E t \in 0..MaxClock :
       Step(ExecInvoke(Advance(VM), Fetch(VM).a, Fetch(VM).b, t))

StepJump == Running("Jump") /\ Step(ExecJump(Advance(VM), Fetch(VM).a))

StepJumpIfFalse ==
  Running("JumpIfFalse") /\ Step(ExecJumpIfFalse(Advance(VM), Fetch(VM).a))

StepLess == Running("Less") /\ Step(binary_op(Advance(VM), "Less"))

StepLoop == Running("Loop") /\ Step(ExecLoop(Advance(VM), Fetch(VM).a))

StepMethod == Running("Method") /\ Step(ExecMethod(Advance(VM), Fetch(VM).a))

StepMultiply == Running("Multiply") /\ Step(binary_op(Advance(VM), "Multiply"))

StepNegate == Running("Negate") /\ Step(ExecNegate(Advance(VM)))

StepNil == Running("Nil") /\ Step(ExecNil(Advance(VM)))

StepNot == Running("Not") /\ Step(ExecNot(Advance(VM)))

StepPop == Running("Pop") /\ Step(ExecPop(Advance(VM)))

StepPrint == Running("Print") /\ Step(ExecPrint(Advance(VM)))

StepReturn == Running("Return") /\ Step(ExecReturn(Advance(VM)))

StepSetGlobal == Running("SetGlobal") /\ Step(ExecSetGlobal(Advance(VM), Fetch(VM).a))

StepSetLocal == Running("SetLocal") /\ Step(ExecSetLocal(Advance(VM), Fetch(VM).a))

StepSetProperty ==
  Running("SetProperty") /\ Step(ExecSetProperty(Advance(VM), Fetch(VM).a))

StepSetUpvalue == Running("SetUpvalue") /\ Step(ExecSetUpvalue(Advance(VM), Fetch(VM).a))

StepSubstract == Running("Substract") /\ Step(binary_op(Advance(VM), "Substract"))

StepSuperInvoke ==
  Running("SuperInvoke") /\ Step(ExecSuperInvoke(Advance(VM), Fetch(VM).a, Fetch(VM).b))

StepTrue == Running("True") /\ Step(ExecTrue(Advance(VM)))

Next ==
  \/ Interpret
  \/ Rerun
  \/ StepAdd
  \/ StepClass
  \/ StepCloseUpvalue
  \/ StepClosure
  \/ StepCall
  \/ StepConstant
  \/ StepDefineGlobal
  \/ StepDivide
  \/ StepEqual
  \/ StepFalse
  \/ StepGetGlobal
  \/ StepGetLocal
  \/ StepGetProperty
  \/ StepGetSuper
  \/ StepGetUpvalue
  \/ StepGreater
  \/ StepInherit
  \/ StepInvoke
  \/ StepJump
  \/ StepJumpIfFalse
  \/ StepLess
  \/ StepLoop
  \/ StepMethod
  \/ StepMultiply
  \/ StepNegate
  \/ StepNil
  \/ StepNot
  \/ StepPop
  \/ StepPrint
  \/ StepReturn
  \/ StepSetGlobal
  \/ StepSetLocal
  \/ StepSetProperty
  \/ StepSetUpvalue
  \/ StepSubstract
  \/ StepSuperInvoke
  \/ StepTrue

Spec == Init /\ [][Next]_vars

(***************************************************************************)
(* The state machine of the command line (main.rs): cli is the process     *)
(* running main; the Vm of vm.rs is not part of it and stays as built.     *)
(***************************************************************************)
\* Bound: the number of arguments main is started with, 1..MaxArgs (the
\* program's name included).
MaxArgs == 3

\* Bound: the number of lines typed at the prompt before the end of input.
MaxReplLines == 2

CliInit ==
  /\ InitVm /\ ~stress /\ cli \in {CliStart(n) : n \in 1..MaxArgs}
  /\ TableInit /\ ParserInit

CliStep(c) == cli' = c /\ UNCHANGED <<vm_vars, table_vars, parser>>

\* fn main
Main ==
  /\ cli.pc = "main"
  /\ CliStep(CASE cli.args_len = 1 -> [cli EXCEPT !.pc = "repl"]
               [] cli.args_len = 2 -> [cli EXCEPT !.pc = "run_file"]
               [] OTHER -> process_exit(cli, 64))

\* fn run_file: the file is read and handed to interpret, or cannot be read.
RunFile ==
  /\ cli.pc = "run_file"
  /\ \E code \in {None} \cup {Some(f) : f \in DOMAIN Files} :
       CliStep(IF code.some
                 THEN MainInterpret([cli EXCEPT !.code = code], code.v)
                 ELSE process_exit([cli EXCEPT !.stderr = @ \o "Unable to read file"], 74))

\* fn repl: one turn of its loop.  The end of the input (a line of length 0)
\* leaves the loop and main returns; any other line is handed to interpret.
Repl ==
  /\ cli.pc = "repl"
  /\ \E line \in {None} \cup {Some(f) : f \in DOMAIN Files \ {FileId("F_empty")}} :
       LET c == [cli EXCEPT !.stdout = @ \o "> "]
       IN  IF line.some
             THEN /\ cli.lines < MaxReplLines
                  /\ CliStep(MainInterpret([c EXCEPT !.lines = @ + 1], line.v))
             ELSE CliStep(process_exit(c, 0))

\* Vm::run (main.rs): one instruction.
VmRun ==
  /\ cli.pc = "run"
  /\ CliStep(MainRun(cli))

CliNext == Main \/ RunFile \/ Repl \/ VmRun

SpecCli == CliInit /\ [][CliNext]_vars

(***************************************************************************)
(* The Vm running the program that fills the stack.  Its run takes some    *)
(* seventeen thousand turns of the loop of Vm::run; the state is observed  *)
(* every Burst turns instead of every turn.                                *)
(***************************************************************************)
\* Bound: the numbers of turns of the loop taken in one step.
Bursts == {128, 1024}

InterpretDeep ==
  /\ status = "Idle"
  /\ Apply(interpret(VM, ProgId("P_deep")))
  /\ lines' = <<ProgId("P_deep")>>
  /\ base' = Len(frames)
  /\ UNCHANGED <<reference, outside_vm>>

RunBurst ==
  /\ status = "Running"
  /\ \E n \in Bursts : Step(run(VM, n, 0))

DeepNext == InterpretDeep \/ RunBurst

SpecDeep == Init /\ [][DeepNext]_vars

(***************************************************************************)
(* The Table of table.rs under any sequence of set and delete, the way its *)
(* tests drive it.  shadow is the map the calls so far should have built:  *)
(* a key's value is that of its last set, unless a delete came after.      *)
(***************************************************************************)
\* Bound: the number of keys; with seven the table grows from 8 to 16 entries.
MaxKeys == 7

\* The hash of key i: the first three keys collide on the last entry of a
\* table of 8 (two of them in a table of 16 too), so that the probing wraps
\* around the end of the array; the others have an entry of their own.
KeyHash(i) == IF i <= 3 THEN 7 + 8 * (i - 1) ELSE i - 2

TableKeys == {[id |-> i, hash |-> KeyHash(i)] : i \in 1..MaxKeys}

\* Bound: the number of keys that are stored under two values.
MaxNilKeys == 1

\* The values a key is stored under: true (the value of a tombstone), and for
\* the first keys also Nil (the value of an empty entry).
TableValues(key) == IF key.id <= MaxNilKeys THEN {Nil, Bool(TRUE)} ELSE {Bool(TRUE)}

TableSet ==
  /\ ~table.hung
  /\ \E key \in TableKeys : \E value \in TableValues(key) :
       /\ table' = set(table, key, value).t
       /\ shadow' = (key.id :> value) @@ shadow
  /\ UNCHANGED <<vm_vars, cli, parser>>

TableDelete ==
  /\ ~table.hung
  /\ \E key \in TableKeys :
       /\ table' = delete(table, key).t
       /\ shadow' = [k \in DOMAIN shadow \ {key.id} |-> shadow[k]] @@ <<>>
  /\ UNCHANGED <<vm_vars, cli, parser>>

TableNext == TableSet \/ TableDelete

InitTable == Init /\ ~stress

SpecTable == InitTable /\ [][TableNext]_vars

(***************************************************************************)
(* The state machine of compile (compiler.rs): Parser::new and the first   *)
(* advance, then one declaration per step while the current token is not   *)
(* Eof, then the end of compile.  The sources are token streams: every     *)
(* stream of at most MaxTokens tokens of TokenAlphabet, every sequence of  *)
(* at most MaxPhrases of ScopePhrases, and the streams of ConstantSources. *)
(***************************************************************************)
Tok(kind, lexeme) == Token(kind, lexeme, 1)

TokenAlphabet ==
  {Tok("Class", "class"), Tok("Fun", "fun"), Tok("Var", "var"),
   Tok("For", "for"), Tok("If", "if"), Tok("While", "while"),
   Tok("Print", "print"), Tok("Return", "return"), Tok("Semicolon", ";"),
   Tok("Identifier", "a"), Tok("Number", "1"), Tok("Equal", "="),
   Tok("LeftBrace", "{"), Tok("RightBrace", "}"), Tok("LeftParen", "("),
   Tok("Error", "Unexpected character.")}

\* Bound: the length of the token streams made of every token.
MaxTokens == 3

TokenSources == UNION {[1..n -> TokenAlphabet] : n \in 0..MaxTokens}

RECURSIVE Flatten(_)
Flatten(seqs) ==
  IF seqs = <<>> THEN <<>> ELSE Head(seqs) \o Flatten(Tail(seqs))

\* {   }   var a;   var b = a;   fun f() {   fun a(a, b) {   class a {}
ScopePhrases ==
  {<<Tok("LeftBrace", "{")>>,
   <<Tok("RightBrace", "}")>>,
   <<Tok("Var", "var"), Tok("Identifier", "a"), Tok("Semicolon", ";")>>,
   <<Tok("Var", "var"), Tok("Identifier", "b"), Tok("Equal", "="),
     Tok("Identifier", "a"), Tok("Semicolon", ";")>>,
   <<Tok("Fun", "fun"), Tok("Identifier", "f"), Tok("LeftParen", "("),
     Tok("RightParen", ")"), Tok("LeftBrace", "{")>>,
   <<Tok("Fun", "fun"), Tok("Identifier", "a"), Tok("LeftParen", "("),
     Tok("Identifier", "a"), Tok("Comma", ","), Tok("Identifier", "b"),
     Tok("RightParen", ")"), Tok("LeftBrace", "{")>>,
   <<Tok("Class", "class"), Tok("Identifier", "a"), Tok("LeftBrace", "{"),
     Tok("RightBrace", "}")>>}

\* Bound: the number of phrases of the streams made of ScopePhrases.
MaxPhrases == 4

ScopeSources ==
  {Flatten(phrases) :
     phrases \in UNION {[1..n -> ScopePhrases] : n \in 1..MaxPhrases}}

\* n number statements: 1; 2; 0; 1; and so on.
NumberStatements(n) ==
  [i \in 1..(2 * n) |->
     IF i % 2 = 1 THEN Tok("Number", ToString(((i + 1) \div 2) % 3))
     ELSE Tok("Semicolon", ";")]

\* n number statements as the script, and as the body of a function.
ConstantSources ==
  UNION {{NumberStatements(n),
          <<Tok("Fun", "fun"), Tok("Identifier", "f"), Tok("LeftParen", "("),
            Tok("RightParen", ")"), Tok("LeftBrace", "{")>>
          \o NumberStatements(n) \o <<Tok("RightBrace", "}")>>} :
         n \in {U8_MAX, U8_MAX + 1, U8_MAX + 2}}

\* if (a) print 1; else print 2;
\* var a; var a;
\* if (a) { var a; while (a) for (;;) { var a; var a; } } else fun f(a, a) { 1 1 }
\* class a < a { m() { return 1; } init() { return 1; } }
ProgramSources ==
  {<<Tok("If", "if"), Tok("LeftParen", "("), Tok("Identifier", "a"),
     Tok("RightParen", ")"), Tok("Print", "print"), Tok("Number", "1"),
     Tok("Semicolon", ";"), Tok("Else", "else"), Tok("Print", "print"),
     Tok("Number", "2"), Tok("Semicolon", ";")>>,
   <<Tok("Var", "var"), Tok("Identifier", "a"), Tok("Semicolon", ";"),
     Tok("Var", "var"), Tok("Identifier", "a"), Tok("Semicolon", ";"),
     Tok("If", "if"), Tok("LeftParen", "("), Tok("Identifier", "a"),
     Tok("RightParen", ")"), Tok("LeftBrace", "{"),
     Tok("Var", "var"), Tok("Identifier", "a"), Tok("Semicolon", ";"),
     Tok("While", "while"),
     Tok("LeftParen", "("), Tok("Identifier", "a"), Tok("RightParen", ")"),
     Tok("For", "for"), Tok("LeftParen", "("), Tok("Semicolon", ";"),
     Tok("Semicolon", ";"), Tok("RightParen", ")"), Tok("LeftBrace", "{"),
     Tok("Var", "var"), Tok("Identifier", "a"), Tok("Semicolon", ";"),
     Tok("Var", "var"), Tok("Identifier", "a"), Tok("Semicolon", ";"),
     Tok("RightBrace", "}"), Tok("RightBrace", "}"), Tok("Else", "else"),
     Tok("Fun", "fun"), Tok("Identifier", "f"), Tok("LeftParen", "("),
     Tok("Identifier", "a"), Tok("Comma", ","), Tok("Identifier", "a"),
     Tok("RightParen", ")"), Tok("LeftBrace", "{"), Tok("Number", "1"),
     Tok("Number", "1"), Tok("RightBrace", "}")>>,
   <<Tok("Class", "class"), Tok("Identifier", "a"), Tok("Less", "<"),
     Tok("Identifier", "a"), Tok("LeftBrace", "{"), Tok("Identifier", "m"),
     Tok("LeftParen", "("), Tok("RightParen", ")"), Tok("LeftBrace", "{"),
     Tok("Return", "return"), Tok("Number", "1"), Tok("Semicolon", ";"),
     Tok("RightBrace", "}"), Tok("Identifier", "init"), Tok("LeftParen", "("),
     Tok("RightParen", ")"), Tok("LeftBrace", "{"), Tok("Return", "return"),
     Tok("Number", "1"), Tok("Semicolon", ";"), Tok("RightBrace", "}"),
     Tok("RightBrace", "}")>>}

\* var i = 0; while (i < 2) { if (i and 1 or 0) print i; else i = i + 1; }
\* for (var j = 0; j < 1; j = j + 1) { print j or 2; } for (;;) print 1 and 2;
\* { var a = 1; for (; a < 2;) if (a) a = a + 1; }
\* fun f(a) { while (a) { for (var b = a; b; b = b + 1) if (b) return a and b; }
\*            return a or 1; }
ControlSources ==
  {<<Tok("Var", "var"), Tok("Identifier", "i"), Tok("Equal", "="),
     Tok("Number", "0"), Tok("Semicolon", ";"), Tok("While", "while"),
     Tok("LeftParen", "("), Tok("Identifier", "i"), Tok("Less", "<"),
     Tok("Number", "2"), Tok("RightParen", ")"), Tok("LeftBrace", "{"),
     Tok("If", "if"), Tok("LeftParen", "("), Tok("Identifier", "i"),
     Tok("And", "and"), Tok("Number", "1"), Tok("Or", "or"),
     Tok("Number", "0"), Tok("RightParen", ")"), Tok("Print", "print"),
     Tok("Identifier", "i"), Tok("Semicolon", ";"), Tok("Else", "else"),
     Tok("Identifier", "i"), Tok("Equal", "="), Tok("Identifier", "i"),
     Tok("Plus", "+"), Tok("Number", "1"), Tok("Semicolon", ";"),
     Tok("RightBrace", "}")>>,
   <<Tok("For", "for"), Tok("LeftParen", "("), Tok("Var", "var"),
     Tok("Identifier", "j"), Tok("Equal", "="), Tok("Number", "0"),
     Tok("Semicolon", ";"), Tok("Identifier", "j"), Tok("Less", "<"),
     Tok("Number", "1"), Tok("Semicolon", ";"), Tok("Identifier", "j"),
     Tok("Equal", "="), Tok("Identifier", "j"), Tok("Plus", "+"),
     Tok("Number", "1"), Tok("RightParen", ")"), Tok("LeftBrace", "{"),
     Tok("Print", "print"), Tok("Identifier", "j"), Tok("Or", "or"),
     Tok("Number", "2"), Tok("Semicolon", ";"), Tok("RightBrace", "}"),
     Tok("For", "for"), Tok("LeftParen", "("), Tok("Semicolon", ";"),
     Tok("Semicolon", ";"), Tok("RightParen", ")"), Tok("Print", "print"),
     Tok("Number", "1"), Tok("And", "and"), Tok("Number", "2"),
     Tok("Semicolon", ";")>>,
   <<Tok("LeftBrace", "{"), Tok("Var", "var"), Tok("Identifier", "a"),
     Tok("Equal", "="), Tok("Number", "1"), Tok("Semicolon", ";"),
     Tok("For", "for"), Tok("LeftParen", "("), Tok("Semicolon", ";"),
     Tok("Identifier", "a"), Tok("Less", "<"), Tok("Number", "2"),
     Tok("Semicolon", ";"), Tok("RightParen", ")"), Tok("If", "if"),
     Tok("LeftParen", "("), Tok("Identifier", "a"), Tok("RightParen", ")"),
     Tok("Identifier", "a"), Tok("Equal", "="), Tok("Identifier", "a"),
     Tok("Plus", "+"), Tok("Number", "1"), Tok("Semicolon", ";"),
     Tok("RightBrace", "}")>>,
   <<Tok("Fun", "fun"), Tok("Identifier", "f"), Tok("LeftParen", "("),
     Tok("Identifier", "a"), Tok("RightParen", ")"), Tok("LeftBrace", "{"),
     Tok("While", "while"), Tok("LeftParen", "("), Tok("Identifier", "a"),
     Tok("RightParen", ")"), Tok("LeftBrace", "{"), Tok("For", "for"),
     Tok("LeftParen", "("), Tok("Var", "var"), Tok("Identifier", "b"),
     Tok("Equal", "="), Tok("Identifier", "a"), Tok("Semicolon", ";"),
     Tok("Identifier", "b"), Tok("Semicolon", ";"), Tok("Identifier", "b"),
     Tok("Equal", "="), Tok("Identifier", "b"), Tok("Plus", "+"),
     Tok("Number", "1"), Tok("RightParen", ")"), Tok("If", "if"),
     Tok("LeftParen", "("), Tok("Identifier", "b"), Tok("RightParen", ")"),
     Tok("Return", "return"), Tok("Identifier", "a"), Tok("And", "and"),
     Tok("Identifier", "b"), Tok("Semicolon", ";"), Tok("RightBrace", "}"),
     Tok("Return", "return"), Tok("Identifier", "a"), Tok("Or", "or"),
     Tok("Number", "1"), Tok("Semicolon", ";"), Tok("RightBrace", "}")>>}

\* class A { init(a, b) { a = b; if (a) return; b = a + 1; } m() { return; } }
\* class A { init(n) { while (n < 2) { n = n + 1; if (n) { var c = n; return; } } } }
\* fun init() { return 1; } class A { init() { fun init() { return 2; } print init; } }
\* class A { init(a) { if (a) return a; a = 1; } }
InitSources ==
  {<<Tok("Class", "class"), Tok("Identifier", "A"), Tok("LeftBrace", "{"),
    Tok("Identifier", "init"), Tok("LeftParen", "("), Tok("Identifier", "a"),
    Tok("Comma", ","), Tok("Identifier", "b"), Tok("RightParen", ")"),
    Tok("LeftBrace", "{"), Tok("Identifier", "a"), Tok("Equal", "="),
    Tok("Identifier", "b"), Tok("Semicolon", ";"), Tok("If", "if"),
    Tok("LeftParen", "("), Tok("Identifier", "a"), Tok("RightParen", ")"),
    Tok("Return", "return"), Tok("Semicolon", ";"), Tok("Identifier", "b"),
    Tok("Equal", "="), Tok("Identifier", "a"), Tok("Plus", "+"),
    Tok("Number", "1"), Tok("Semicolon", ";"), Tok("RightBrace", "}"),
    Tok("Identifier", "m"), Tok("LeftParen", "("), Tok("RightParen", ")"),
    Tok("LeftBrace", "{"), Tok("Return", "return"), Tok("Semicolon", ";"),
    Tok("RightBrace", "}"), Tok("RightBrace", "}")>>,
   <<Tok("Class", "class"), Tok("Identifier", "A"), Tok("LeftBrace", "{"),
    Tok("Identifier", "init"), Tok("LeftParen", "("), Tok("Identifier", "n"),
    Tok("RightParen", ")"), Tok("LeftBrace", "{"), Tok("While", "while"),
    Tok("LeftParen", "("), Tok("Identifier", "n"), Tok("Less", "<"),
    Tok("Number", "2"), Tok("RightParen", ")"), Tok("LeftBrace", "{"),
    Tok("Identifier", "n"), Tok("Equal", "="), Tok("Identifier", "n"),
    Tok("Plus", "+"), Tok("Number", "1"), Tok("Semicolon", ";"),
    Tok("If", "if"), Tok("LeftParen", "("), Tok("Identifier", "n"),
    Tok("RightParen", ")"), Tok("LeftBrace", "{"), Tok("Var", "var"),
    Tok("Identifier", "c"), Tok("Equal", "="), Tok("Identifier", "n"),
    Tok("Semicolon", ";"), Tok("Return", "return"), Tok("Semicolon", ";"),
    Tok("RightBrace", "}"), Tok("RightBrace", "}"), Tok("RightBrace", "}"),
    Tok("RightBrace", "}")>>,
   <<Tok("Fun", "fun"), Tok("Identifier", "init"), Tok("LeftParen", "("),
    Tok("RightParen", ")"), Tok("LeftBrace", "{"), Tok("Return", "return"),
    Tok("Number", "1"), Tok("Semicolon", ";"), Tok("RightBrace", "}"),
    Tok("Class", "class"), Tok("Identifier", "A"), Tok("LeftBrace", "{"),
    Tok("Identifier", "init"), Tok("LeftParen", "("), Tok("RightParen", ")"),
    Tok("LeftBrace", "{"), Tok("Fun", "fun"), Tok("Identifier", "init"),
    Tok("LeftParen", "("), Tok("RightParen", ")"), Tok("LeftBrace", "{"),
    Tok("Return", "return"), Tok("Number", "2"), Tok("Semicolon", ";"),
    Tok("RightBrace", "}"), Tok("Print", "print"), Tok("Identifier", "init"),
    Tok("Semicolon", ";"), Tok("RightBrace", "}"), Tok("RightBrace", "}")>>,
   <<Tok("Class", "class"), Tok("Identifier", "A"), Tok("LeftBrace", "{"),
    Tok("Identifier", "init"), Tok("LeftParen", "("), Tok("Identifier", "a"),
    Tok("RightParen", ")"), Tok("LeftBrace", "{"), Tok("If", "if"),
    Tok("LeftParen", "("), Tok("Identifier", "a"), Tok("RightParen", ")"),
    Tok("Return", "return"), Tok("Identifier", "a"), Tok("Semicolon", ";"),
    Tok("Identifier", "a"), Tok("Equal", "="), Tok("Number", "1"),
    Tok("Semicolon", ";"), Tok("RightBrace", "}"), Tok("RightBrace", "}")>>}

Sources ==
  TokenSources \cup ScopeSources \cup ConstantSources \cup ProgramSources
    \cup ControlSources \cup InitSources

ParserStart ==
  /\ parser.result = "Off"
  /\ \E tokens \in Sources : parser' = Call(advance(ParserNew(tokens)), "compile")
  /\ UNCHANGED <<vm_vars, cli, table_vars>>

\* The parser is at the code of the frames named pc.
At(pc) ==
  /\ parser.result = "Compiling"
  /\ parser.frames # <<>>
  /\ Last(parser.frames).pc = pc

\* The parser when the call above the top frame has returned to it.
Resumed == [parser EXCEPT !.frames = Front(@)]

Becomes(p) == parser' = p /\ UNCHANGED <<vm_vars, cli, table_vars>>

\* One turn of the loop of Parser::compile.
Declaration ==
  At("compile") /\ ~check(parser, "Eof") /\ Becomes(declaration(parser))

\* Parser::compile from the turn of its loop that matches Eof.
CompileEnd ==
  /\ At("compile")
  /\ check(parser, "Eof")
  /\ LET Ended(q) ==
           [q EXCEPT !.result = IF q.had_error THEN "CompileError" ELSE "Ok"]
     IN  Becomes(Ended(emit_return(advance(Resumed))))

Synchronize == At("synchronize") /\ Becomes(declaration_end(Resumed))

Statement == At("statement") /\ Becomes(statement(Resumed))

Block == At("block") /\ Becomes(block(Resumed))

EndScope == At("end_scope") /\ Becomes(end_scope(Resumed))

IfThen ==
  At("if_then") /\ Becomes(if_statement_then(Resumed, Last(parser.frames).a))

IfElse ==
  At("if_else") /\ Becomes(if_statement_end(Resumed, Last(parser.frames).a))

WhileEnd ==
  /\ At("while_end")
  /\ Becomes(while_statement_end(Resumed, Last(parser.frames).a,
                                 Last(parser.frames).b))

ForEnd ==
  /\ At("for_end")
  /\ Becomes(for_statement_end(Resumed, Last(parser.frames).a,
                               Last(parser.frames).b))

FunctionEnd == At("function_end") /\ Becomes(Parser_function_end(Resumed))

FunEnd ==
  At("fun_end") /\ Becomes(fun_declaration_end(Resumed, Last(parser.frames).a))

Methods == At("methods") /\ Becomes(class_declaration_methods(Resumed))

MethodEnd ==
  At("method_end") /\ Becomes(method_end(Resumed, Last(parser.frames).a))

ClassEnd == At("class_end") /\ Becomes(class_declaration_end(Resumed))

ParserNext ==
  \/ ParserStart \/ Declaration \/ CompileEnd \/ Synchronize \/ Statement
  \/ Block \/ EndScope \/ IfThen \/ IfElse \/ WhileEnd \/ ForEnd
  \/ FunctionEnd \/ FunEnd \/ Methods \/ MethodEnd \/ ClassEnd

SpecParser == InitTable /\ [][ParserNext]_vars


(***************************************************************************)
(* Reachability: the handles a collection must keep.  A typed handle is a  *)
(* pair <<index, type>>: the slot and the type the holder takes it for.    *)
(***************************************************************************)
ValueRefs(v) == IF IsRef(v) THEN {<<v.h, v.k>>} ELSE {}

TableRefs(t) ==
  {<<key, "String">> : key \in DOMAIN t} \cup UNION {ValueRefs(t[key]) : key \in DOMAIN t}

\* The handles an object holds: what its Trace::trace marks.
ObjRefs(obj) ==
  CASE obj.t = "String" -> {}
    [] obj.t = "Empty" -> {}
    [] obj.t = "Upvalue" -> IF obj.closed.some THEN ValueRefs(obj.closed.v) ELSE {}
    [] obj.t = "Function" ->
         {<<obj.name, "String">>} \cup UNION {ValueRefs(v) : v \in Range(obj.constants)}
    [] obj.t = "Closure" ->
         {<<obj.function, "Function">>} \cup {<<u, "Upvalue">> : u \in Range(obj.upvalues)}
    [] obj.t = "Class" -> {<<obj.name, "String">>} \cup TableRefs(obj.methods)
    [] obj.t = "Instance" -> {<<obj.class, "Class">>} \cup TableRefs(obj.fields)
    [] obj.t = "BoundMethod" -> ValueRefs(obj.receiver) \cup {<<obj.method, "Closure">>}

\* The roots of Vm::mark_roots.
RootRefs(vm) ==
  UNION {ValueRefs(v) : v \in Range(vm.stack)}
    \cup {<<f.closure, "Closure">> : f \in Range(vm.frames)}
    \cup {<<u, "Upvalue">> : u \in Range(vm.open_upvalues)}
    \cup TableRefs(vm.globals)
    \cup {<<vm.init_string, "String">>}

\* The handle refers to an allocated object of the type it is taken for.
LiveRef(a, th) == th[1] < Len(a.objects) /\ a.objects[th[1] + 1].obj.t = th[2]

RECURSIVE ReachFrom(_, _, _)
ReachFrom(a, seen, frontier) ==
  IF frontier = {}
    THEN seen
    ELSE ReachFrom(a, seen \cup frontier,
                   UNION {ObjRefs(a.objects[th[1] + 1].obj) :
                            th \in {x \in frontier : LiveRef(a, x)}}
                     \ (seen \cup frontier))

Reachable(vm) == ReachFrom(vm.a, {}, RootRefs(vm))

(***************************************************************************)
(* C1. GC safety.                                                          *)
(***************************************************************************)
\* C1: in every state, every handle reachable from the VM roots (stack, frames'
\* closures, open upvalues, globals, the init string), directly or through
\* reachable objects, refers to an allocated object of the handle's type, and
\* its slot is not in the allocator's free list.
C1_GcSafety ==
  \A th \in Reachable(VM) :
    LiveRef(allocator, th) /\ th[1] \notin Range(allocator.free_slots)

\* C1 witness: in the stress build a collection has freed an object (its slot
\* is Empty) while the program runs and holds a reachable instance.
C1_Witness ==
  /\ stress
  /\ status = "Running"
  /\ \E i \in DOMAIN allocator.objects : allocator.objects[i].obj.t = "Empty"
  /\ \E th \in Reachable(VM) : th[2] = "Instance"

(***************************************************************************)
(* C2. Stress-GC equivalence.                                              *)
(***************************************************************************)
\* C2: once the run of a program in the stress build (a collection before every
\* alloc and intern) is no longer executing instructions, it has printed the
\* same values and ended with the same result as the run of the same program
\* in the build where no collection takes place.
C2_StressEquivalence ==
  reference.on /\ status # "Running" => out = reference.out /\ status = reference.status

(***************************************************************************)
(* C3. Runtime-error unwinding.                                            *)
(***************************************************************************)
\* C3: when interpret has returned RuntimeError the frame stack and the value
\* stack are empty, and while an interpret call is running the frame being
\* executed is one that this call pushed (never one of the `base` frames the
\* Vm already held when interpret was called).
C3_Unwinding ==
  /\ status = "RuntimeError" => frames = <<>> /\ stack = <<>>
  /\ status = "Running" => Len(frames) > base

(***************************************************************************)
(* C4. Upvalue sharing.                                                    *)
(***************************************************************************)
\* The value seen through upvalue object u.
UpvalueValue(vm, u) ==
  IF Deref(vm, u).closed.some THEN Deref(vm, u).closed.v
  ELSE vm.stack[Deref(vm, u).location + 1]

OpenUpvalueObjects(vm) ==
  {h \in 0..(Len(vm.a.objects) - 1) :
     vm.a.objects[h + 1].obj.t = "Upvalue" /\ ~vm.a.objects[h + 1].obj.closed.some}

\* At most one open upvalue object per stack slot, and every open upvalue
\* object is in the Vm's open list.
C4_OneOpenUpvaluePerSlot ==
  /\ \A h1, h2 \in OpenUpvalueObjects(VM) :
       Deref(VM, h1).location = Deref(VM, h2).location => h1 = h2
  /\ OpenUpvalueObjects(VM) = Range(open_upvalues)

\* Closure captures local `index` of the running frame as the open upvalue of
\* slot frame.slot + index (the slot GetLocal(index) reads), and takes the
\* other upvalues from the running closure.
C4_ClosureCaptures ==
  StepClosure /\ status' = "Running" =>
    LET function == Deref(VM, ReadConstant(VM, Fetch(VM).a).h)
        closure == allocator'.objects[Last(stack').h + 1].obj
    IN  /\ Len(closure.upvalues) = Len(function.upvalues)
        /\ \A i \in DOMAIN function.upvalues :
             IF function.upvalues[i].is_local
               THEN /\ closure.upvalues[i] \in Range(open_upvalues')
                    /\ allocator'.objects[closure.upvalues[i] + 1].obj
                         = ObjUpvalue(current_frame(VM).slot + function.upvalues[i].index)
               ELSE closure.upvalues[i]
                      = current_closure(VM).upvalues[function.upvalues[i].index + 1]

\* SetUpvalue writes the top of the stack to the upvalue's variable, GetUpvalue
\* pushes the upvalue's variable, GetLocal pushes the frame's slot.
C4_ReadsAndWrites ==
  /\ StepSetUpvalue /\ status' = "Running" =>
       UpvalueValue(VM', current_closure(VM).upvalues[Fetch(VM).a + 1]) = Last(stack)
  /\ StepGetUpvalue /\ status' = "Running" =>
       Last(stack') = UpvalueValue(VM, current_closure(VM).upvalues[Fetch(VM).a + 1])
  /\ StepGetLocal /\ status' = "Running" =>
       Last(stack') = stack[current_frame(VM).slot + Fetch(VM).a + 1]

\* A reachable upvalue keeps its variable when it is closed (the closed value
\* is the slot's value), a closed one changes only by SetUpvalue through it,
\* and a reachable closure keeps its upvalues.
C4_ClosePreserves ==
  \A th \in Reachable(VM) \cap Reachable(VM') :
    /\ th[2] = "Upvalue" /\ Deref(VM', th[1]).closed.some =>
         IF Deref(VM, th[1]).closed.some
           THEN \/ Deref(VM', th[1]) = Deref(VM, th[1])
                \/ /\ StepSetUpvalue
                   /\ current_closure(VM).upvalues[Fetch(VM).a + 1] = th[1]
           ELSE Deref(VM', th[1]).closed.v = UpvalueValue(VM, th[1])
    /\ th[2] = "Closure" => Deref(VM', th[1]) = Deref(VM, th[1])

\* The two programs in which get and set capture the same local x: set(2) is
\* seen by GetLocal and by get while x is live, and set(3) is seen by get after
\* x was closed by Return (P_share_return) or CloseUpvalue (P_share_block).
C4_SharingObserved ==
  /\ status = "Ok"
  /\ lines \in {<<ProgId("P_share_return")>>, <<ProgId("P_share_block")>>}
  => out = <<"2", "2", "3">>

\* C4: two closures that capture the same local of an enclosing function hold
\* the same upvalue object, so that a SetUpvalue through one is read by
\* GetUpvalue through the other and by the frame's GetLocal while the variable
\* is live, and still by GetUpvalue after CloseUpvalue or Return closed it.
C4_UpvalueSharing ==
  /\ [](C4_OneOpenUpvaluePerSlot /\ C4_SharingObserved)
  /\ [][C4_ClosureCaptures /\ C4_ReadsAndWrites /\ C4_ClosePreserves]_vars

\* C4 witness: the stress-build run of P_share_block has ended after set(3)
\* was read back through get, the variable having been closed by CloseUpvalue.
C4_Witness ==
  /\ stress
  /\ lines = <<ProgId("P_share_block")>>
  /\ status = "Ok"
  /\ out = <<"2", "2", "3">>

(***************************************************************************)
(* C5. String interning.                                                   *)
(***************************************************************************)
StringObjects(a) == {h \in 0..(Len(a.objects) - 1) : a.objects[h + 1].obj.t = "String"}

\* The intern table maps each content to the one String object with that
\* content, and every String object is in the table.
C5_InternTable ==
  /\ \A h1, h2 \in StringObjects(allocator) :
       allocator.objects[h1 + 1].obj.s = allocator.objects[h2 + 1].obj.s => h1 = h2
  /\ \A name \in DOMAIN allocator.strings :
       /\ allocator.strings[name] \in StringObjects(allocator)
       /\ allocator.objects[allocator.strings[name] + 1].obj.s = name
  /\ \A h \in StringObjects(allocator) :
       /\ allocator.objects[h + 1].obj.s \in DOMAIN allocator.strings
       /\ allocator.strings[allocator.objects[h + 1].obj.s] = h

\* Add on two strings pushes the interned handle of the concatenation.
C5_AddInterns ==
  StepAdd /\ status' = "Running" /\ Last(stack).k = "String" =>
    LET result == Deref(VM, stack[Len(stack) - 1].h).s \o Deref(VM, Last(stack).h).s
    IN  /\ Last(stack') = Ref("String", allocator'.strings[result])
        /\ result \in DOMAIN allocator.strings
             /\ <<allocator.strings[result], "String">> \in Reachable(VM)
             => allocator'.strings[result] = allocator.strings[result]

\* C5: two String handles have equal contents exactly when they are the same
\* handle: no two String objects in the heap have the same contents, the
\* intern table holds exactly the String objects of the heap under their
\* contents, also after collections have dropped entries, and Add pushes the
\* interned handle of the concatenation (the existing one when the contents
\* are already held by a reachable string).
C5_StringInterning == []C5_InternTable /\ [][C5_AddInterns]_vars

\* C5 witness: in the stress build P_strings has interned the concatenations
\* "ab" (already present as a lexeme) and "abc", and a collection has dropped
\* the table entry of the dead concatenation "abab" after it was printed.
C5_Witness ==
  /\ stress
  /\ lines = <<ProgId("P_strings")>>
  /\ out = <<"true", "abab", "true">>
  /\ "abc" \in DOMAIN allocator.strings
  /\ "abab" \notin DOMAIN allocator.strings

(***************************************************************************)
(* C6. Exit codes.                                                         *)
(***************************************************************************)
\* C6: a process started with more than one argument exits with 64; started
\* with one argument (a file) it exits with 74 when the file cannot be read,
\* with 0 when interpret returned Ok, 65 when it returned CompileError and 70
\* when it returned RuntimeError.
C6_ExitCodes ==
  cli.pc = "exited" =>
    CASE cli.args_len > 2 -> cli.exit_code = Some(64)
      [] cli.args_len = 2 /\ ~cli.code.some -> cli.exit_code = Some(74)
      [] cli.args_len = 2 /\ cli.code.some ->
           cli.exit_code = Some(CASE cli.result = "Ok" -> 0
                                  [] cli.result = "CompileError" -> 65
                                  [] cli.result = "RuntimeError" -> 70)
      [] OTHER -> TRUE

(***************************************************************************)
(* C7. Property read.                                                      *)
(***************************************************************************)
\* C7: GetProperty(name) with receiver r on top of the stack: if r is not an
\* Instance it is the runtime error "Only instances have properties."; if name
\* is a field of r the top of the stack becomes the field's value (also when
\* the class has a method of that name); otherwise if name is a method of r's
\* class the top becomes a BoundMethod(r, closure) object that was not
\* reachable before; otherwise it is the runtime error "Undefined property".
C7_GetPropertyStep ==
  StepGetProperty =>
    LET receiver == Last(stack)
        name == ReadConstant(VM, Fetch(VM).a).h
    IN  IF receiver.k # "Instance"
          THEN /\ status' = "RuntimeError"
               /\ err' = "Only instances have properties."
               /\ stack' = stack
          ELSE LET instance == Deref(VM, receiver.h)
                   methods == Deref(VM, instance.class).methods
               IN  IF name \in DOMAIN instance.fields
                     THEN /\ status' = "Running"
                          /\ stack' = Append(Front(stack), instance.fields[name])
                     ELSE IF name \in DOMAIN methods
                       THEN /\ status' = "Running"
                            /\ Front(stack') = Front(stack)
                            /\ Len(stack') = Len(stack)
                            /\ Last(stack').k = "BoundMethod"
                            /\ <<Last(stack').h, "BoundMethod">> \notin Reachable(VM)
                            /\ allocator'.objects[Last(stack').h + 1].obj
                                 = BoundMethod(receiver, methods[name].h)
                       ELSE /\ status' = "RuntimeError"
                            /\ err' = "Undefined property '" \o Deref(VM, name).s \o "'."
                            /\ stack' = stack

C7_GetProperty == [][C7_GetPropertyStep]_vars

\* C7 witness: P_classes has read the field f, the method m as a bound method
\* (printed "<fn m>"), the field m that shadows the method m (printed "5"),
\* and ended on the undefined property zz.
C7_Witness ==
  /\ lines = <<ProgId("P_classes")>>
  /\ status = "RuntimeError"
  /\ err = "Undefined property 'zz'."
  /\ out = <<"7", "A.m", "A.m", "<fn m>", "5">>

(***************************************************************************)
(* C8. Superclass snapshot.                                                *)
(***************************************************************************)
ClassObjects(a) == {h \in 0..(Len(a.objects) - 1) : a.objects[h + 1].obj.t = "Class"}

\* Inherit with the subclass on top of the superclass: the subclass's method
\* table becomes the superclass's table of that moment, the subclass is
\* popped; a superclass that is not a Class is a runtime error.
C8_InheritStep ==
  StepInherit =>
    LET subclass == Last(stack)
        superclass == stack[Len(stack) - 1]
    IN  IF subclass.k = "Class" /\ superclass.k = "Class"
          THEN /\ status' = "Running"
               /\ stack' = Front(stack)
               /\ Deref(VM', subclass.h).methods = Deref(VM, superclass.h).methods
               /\ \A h \in ClassObjects(allocator) \ {subclass.h} :
                    Deref(VM', h) = Deref(VM, h)
          ELSE /\ status' = "RuntimeError"
               /\ err' = "Superclass must be a class."
               /\ stack' = stack

\* Method defines the method in the table of the class below the top of the
\* stack, and leaves the table of every other class unchanged (a Method step
\* that finds no class there aborts the process: see C27).
C8_MethodStep ==
  StepMethod /\ status' = "Running" =>
    LET class == stack[Len(stack) - 1].h
        name == ReadConstant(VM, Fetch(VM).a).h
    IN  /\ Deref(VM', class).methods = TableInsert(Deref(VM, class).methods, name, Last(stack))
        /\ \A h \in ClassObjects(allocator) \ {class} : Deref(VM', h) = Deref(VM, h)

\* C8: Inherit gives the subclass a copy of the superclass's methods of that
\* moment and pops the subclass (runtime error "Superclass must be a class."
\* otherwise); a later Method on either class changes only that class's table.
C8_SuperclassSnapshot == [][C8_InheritStep /\ C8_MethodStep]_vars

\* C8 witness: after class B < A, B holds the methods A had (init, m) and the
\* methods n and g defined on B afterwards, which A does not have.
C8_Witness ==
  \E x, y \in ClassObjects(allocator) :
    /\ x # y
    /\ Cardinality(DOMAIN Deref(VM, x).methods) = 2
    /\ Cardinality(DOMAIN Deref(VM, y).methods) = 4
    /\ \A m \in DOMAIN Deref(VM, x).methods :
         m \in DOMAIN Deref(VM, y).methods /\ Deref(VM, y).methods[m] = Deref(VM, x).methods[m]

(***************************************************************************)
(* C9. Equality.                                                           *)
(***************************************************************************)
\* The equality the claim states: same kind and same payload, same object
\* handle, or same native function.
ClaimedEqual(x, y) ==
  IF x.k # y.k THEN FALSE
  ELSE CASE x.k = "Nil" -> TRUE
         [] x.k = "Bool" -> x.b = y.b
         [] x.k = "Number" -> NumEq(x, y)
         [] x.k = "NativeFunction" -> x.f = y.f
         [] OTHER -> x.h = y.h

\* C9: Equal pops two values and pushes true exactly when they are of the same
\* kind with the same payload, the same object handle or the same native
\* function, never raising; and every value other than a number equals a copy
\* of itself.
C9_Equality ==
  /\ [][StepEqual =>
          /\ status' = "Running"
          /\ stack' = Append(SubSeq(stack, 1, Len(stack) - 2),
                             Bool(ClaimedEqual(Last(stack), stack[Len(stack) - 1])))]_vars
  /\ [](\A i \in DOMAIN stack : stack[i].k # "Number" => ValueEq(stack[i], stack[i]))

(***************************************************************************)
(* C10. Frame limit.                                                       *)
(***************************************************************************)
\* C10: the frame stack never holds more than MAX_FRAMES frames; a frame is
\* pushed only while fewer than MAX_FRAMES are active, and a step that ends in
\* a runtime error (stack overflow, arity mismatch) pushes no frame.
C10_FrameLimit ==
  /\ [](Len(frames) <= MAX_FRAMES)
  /\ [][/\ Len(frames') > Len(frames) => Len(frames) < MAX_FRAMES
        /\ status' = "RuntimeError" => Len(frames') = Len(frames)]_vars

(***************************************************************************)
(* C11. Stack bound.                                                       *)
(***************************************************************************)
\* C11: at every point of execution the value stack holds at most
\* MAX_FRAMES * 256 values.
C11_StackBound == Len(stack) <= MAX_FRAMES * 256

(***************************************************************************)
(* C12. Class call.  A step whose collection never ends (status "Hung")    *)
(* has not returned; the claims about what an instruction does are about   *)
(* the instructions that return.                                           *)
(***************************************************************************)
\* The frames after the instruction was fetched: the ip of the top frame moved.
FetchedFrames == [frames EXCEPT ![Len(frames)].ip = @ + 1]

\* C12: Call(argc) on a Class stores a new Instance of that class in the
\* callee slot and changes no other stack slot; if the class has an init
\* method, that closure is called with the same argc and the callee slot as
\* its slot 0 (a frame is pushed, or call refuses it for its arity or for the
\* frame limit); otherwise nothing is called, and a non-zero argc is the
\* runtime error "Expected 0 arguments but got <argc>.".
C12_ClassCallStep ==
  (/\ StepCall
   /\ Len(stack) > Fetch(VM).a
   /\ Peek(VM, Fetch(VM).a).k = "Class"
   /\ status' # "Hung") =>
    LET argc == Fetch(VM).a
        slot == Len(stack) - argc
        class == stack[slot].h
        methods == Deref(VM, class).methods
    IN  /\ stack'[slot].k = "Instance"
        /\ stack' = [stack EXCEPT ![slot] = stack'[slot]]
        /\ <<stack'[slot].h, "Instance">> \notin Reachable(VM)
        /\ allocator'.objects[stack'[slot].h + 1].obj = Instance(class)
        /\ IF init_string \in DOMAIN methods
             THEN LET initializer == methods[init_string].h
                      arity == Deref(VM, Deref(VM, initializer).function).arity
                  IN  /\ methods[init_string].k = "Closure"
                      /\ \/ /\ status' = "Running"
                            /\ argc = arity
                            /\ frames' = Append(FetchedFrames, CallFrame(initializer, slot - 1))
                         \/ /\ status' = "RuntimeError"
                            /\ frames' = FetchedFrames
                            /\ \/ argc # arity /\ err' = "Expected " \o NatStr(arity)
                                       \o " arguments but got " \o NatStr(argc) \o "."
                               \/ Len(frames) = MAX_FRAMES /\ err' = "Stack overflow."
             ELSE /\ frames' = FetchedFrames
                  /\ IF argc = 0
                       THEN status' = "Running"
                       ELSE /\ status' = "RuntimeError"
                            /\ err' = "Expected 0 arguments but got " \o NatStr(argc) \o "."

C12_ClassCall == [][C12_ClassCallStep]_vars

\* C12 witness: P_init_return has built an instance through init (and printed
\* the field init set), and its second call P(1) left the new instance in the
\* callee slot below the argument when init's arity refused it.
C12_Witness ==
  /\ lines = <<ProgId("P_init_return")>>
  /\ out = <<"1">>
  /\ status = "RuntimeError"
  /\ err = "Expected 0 arguments but got 1."
  /\ Len(stack) >= 2
  /\ stack[Len(stack) - 1].k = "Instance"
  /\ Deref(VM, stack[Len(stack) - 1].h) = Instance(Deref(VM, stack[Len(stack) - 1].h).class)

(***************************************************************************)
(* C13. Native call.                                                       *)
(***************************************************************************)
\* The formatted arguments of a call with argc arguments, first to last,
\* separated by ", ".
RECURSIVE ArgumentTexts(_, _)
ArgumentTexts(argc, i) ==
  IF i > argc THEN ""
  ELSE Format(VM, stack[Len(stack) - argc + i]) \o (IF i < argc THEN ", " ELSE "")
         \o ArgumentTexts(argc, i + 1)

\* C13: Call(argc) on a NativeFunction pushes no frame; when the native
\* returns (clock), the stack is the stack before the call with the callee and
\* its argc arguments removed and the result pushed in their place; the native
\* gets exactly the argc argument values in order (panic's message lists
\* them, first to last).
C13_NativeCallStep ==
  (/\ StepCall
   /\ Len(stack) > Fetch(VM).a
   /\ Peek(VM, Fetch(VM).a).k = "NativeFunction") =>
    LET argc == Fetch(VM).a
        callee == Peek(VM, argc)
    IN  /\ frames' = FetchedFrames
        /\ \/ /\ callee.f = "clock"
              /\ status' = "Running"
              /\ \E t \in 0..MaxClock :
                   stack' = Append(SubSeq(stack, 1, Len(stack) - argc - 1), Num(t))
           \/ /\ callee.f = "lox_panic"
              /\ status' = "Panic"
              /\ err' = "panic: " \o ArgumentTexts(argc, 1)

C13_NativeCall == [][C13_NativeCallStep]_vars

\* C13 witness: P_natives has called clock with two arguments and printed the
\* comparison of its result with 0, and then called panic with three
\* arguments, whose message lists them in order.
C13_Witness ==
  /\ lines = <<ProgId("P_natives")>>
  /\ out = <<"true">>
  /\ status = "Panic"
  /\ err = "panic: x, 1, nil"

(***************************************************************************)
(* C14. Undefined globals.                                                 *)
(***************************************************************************)
\* C14: GetGlobal or SetGlobal of a name that is not in the globals table is
\* the runtime error "Undefined variable '<name>'." and leaves the globals
\* table and the stack as they were; of a name that is in the table, GetGlobal
\* pushes its value and SetGlobal stores the top of the stack under it; and
\* only DefineGlobal adds a name to the table.
C14_GlobalStep ==
  /\ (/\ StepGetGlobal \/ StepSetGlobal
      /\ HasString(VM, Fetch(VM).a)
      /\ StepSetGlobal => stack # <<>>) =>
       LET name == ReadConstant(VM, Fetch(VM).a).h
       IN  IF name \notin DOMAIN globals
             THEN /\ status' = "RuntimeError"
                  /\ err' = "Undefined variable '" \o Deref(VM, name).s \o "'."
                  /\ globals' = globals
                  /\ stack' = stack
             ELSE /\ status' = "Running"
                  /\ StepGetGlobal =>
                       globals' = globals /\ stack' = Append(stack, globals[name])
                  /\ StepSetGlobal =>
                       /\ stack' = stack
                       /\ globals' = [globals EXCEPT ![name] = Last(stack)]
  /\ DOMAIN globals' \subseteq DOMAIN globals \/ StepDefineGlobal

C14_UndefinedGlobals == [][C14_GlobalStep]_vars

\* C14 witness: the assignment x = 1 of P_undef_set has failed and the table
\* holds the two natives only.
C14_Witness ==
  /\ lines = <<ProgId("P_undef_set")>>
  /\ status = "RuntimeError"
  /\ err = "Undefined variable 'x'."
  /\ Cardinality(DOMAIN globals) = 2
  /\ \A k \in DOMAIN globals : globals[k].k = "NativeFunction"

(***************************************************************************)
(* C15. Falsiness.                                                         *)
(***************************************************************************)
\* The values the claim calls falsey.
ClaimedFalsey(v) == v = Nil \/ v = Bool(FALSE)

\* Not and JumpIfFalse of vm.rs decide by ClaimedFalsey.
C15_VmStep ==
  /\ (StepNot /\ stack # <<>>) =>
       stack' = Append(Front(stack), Bool(ClaimedFalsey(Last(stack))))
  /\ (StepJumpIfFalse /\ stack # <<>>) =>
       /\ stack' = stack
       /\ frames' = [frames EXCEPT ![Len(frames)].ip =
                       @ + 1 + (IF ClaimedFalsey(Last(stack)) THEN Fetch(VM).a ELSE 0)]

\* Not of main.rs decides by ClaimedFalsey.
C15_MainStep ==
  (VmRun /\ cli.chunk.code[cli.ip + 1].op = "Not") =>
    cli'.stack = Append(Front(cli.stack), Bool(ClaimedFalsey(Last(cli.stack))))

\* C15: a value is falsey exactly when it is Nil or Bool(false); every other
\* value, every Number and the empty string included, is truthy, and Not and
\* JumpIfFalse decide by this predicate.
C15_Falsiness == [][C15_VmStep /\ C15_MainStep]_vars

(***************************************************************************)
(* C16. Table as a map.                                                    *)
(***************************************************************************)
\* C16: after any sequence of set and delete on a Table, get(k) is Some(v)
\* for the value v of the last set(k, v) not followed by delete(k) and None
\* otherwise; a set of k then returns true exactly when k is not present and a
\* delete of k returns true exactly when k is present; no call loops for ever.
C16_TableAsMap ==
  /\ ~table.hung
  /\ \A key \in TableKeys :
       /\ get(table, key) =
            (IF key.id \in DOMAIN shadow THEN Some(shadow[key.id]) ELSE None)
       /\ delete(table, key).ret = (key.id \in DOMAIN shadow)
       /\ ~delete(table, key).t.hung
       /\ \A value \in TableValues(key) :
            /\ set(table, key, value).ret = (key.id \notin DOMAIN shadow)
            /\ ~set(table, key, value).t.hung

\* C16 witness: the table has grown to 16 entries, holds a tombstone, holds a
\* key under Nil and another under true, and two of the colliding keys are
\* present.
C16_Witness ==
  /\ table.capacity = 16
  /\ \E i \in DOMAIN table.entries :
       ~table.entries[i].key.some /\ table.entries[i].value = Bool(TRUE)
  /\ \E k1, k2 \in DOMAIN shadow : shadow[k1] = Nil /\ shadow[k2] = Bool(TRUE)
  /\ {1, 3} \subseteq DOMAIN shadow
  /\ table.count > Cardinality(DOMAIN shadow)

(***************************************************************************)
(* C17. Compile-error reporting.                                           *)
(***************************************************************************)
\* Where synchronize stops: after a semicolon or the end of the input, or
\* before a token that starts a declaration or a statement.
C17_Stops(previous, current) ==
  \/ previous \in {"Semicolon", "Eof"}
  \/ current \in {"class", "fun", "var", "for", "if", "while", "print", "return"}

C17_Keyword(kind) ==
  CASE kind = "Class" -> "class" [] kind = "Fun" -> "fun"
    [] kind = "Var" -> "var" [] kind = "For" -> "for" [] kind = "If" -> "if"
    [] kind = "While" -> "while" [] kind = "Print" -> "print"
    [] kind = "Return" -> "return" [] OTHER -> ""

\* The log of a compile: two diagnostics have a synchronize between them, and
\* a run of synchronize goes on token by token exactly until it stands at a
\* place where it stops.
C17_Log(log) ==
  /\ \A i, j \in DOMAIN log :
       (i < j /\ log[i].e = "error" /\ log[j].e = "error")
         => \E k \in (i + 1)..(j - 1) : log[k].e = "sync"
  /\ \A i \in DOMAIN log :
       /\ log[i].e = "sync" => (i < Len(log) /\ log[i + 1].e = "at")
       /\ log[i].e = "at" =>
            (~C17_Stops(log[i].previous, C17_Keyword(log[i].current))
               <=> \E j \in (i + 1)..Len(log) :
                     /\ log[j].e = "at"
                     /\ \A k \in (i + 1)..(j - 1) : log[k].e = "error")

C17_Synchronizes == At("synchronize") /\ parser.panic_mode

C17_Step ==
  parser'.result # "Off" =>
    /\ Len(parser'.stderr) <= Len(parser.stderr) + 1
    /\ parser'.stderr # parser.stderr => parser'.panic_mode
    /\ (parser.panic_mode /\ ~At("synchronize")) =>
         (parser'.stderr = parser.stderr /\ parser'.panic_mode)
    /\ C17_Synchronizes =>
         /\ parser'.log[Len(parser.log) + 1].e = "sync"
         /\ C17_Stops(parser'.previous.kind, C17_Keyword(parser'.current.kind))
    /\ ~C17_Synchronizes =>
         \A i \in (Len(parser.log) + 1)..Len(parser'.log) :
           parser'.log[i].e = "error"
    /\ C17_Log(parser'.log)
    /\ parser'.had_error <=> parser'.stderr # <<>>
    /\ parser'.result \in {"Compiling", "Ok", "CompileError"}
    /\ parser'.result = "CompileError" <=>
         (parser'.result # "Compiling" /\ parser'.stderr # <<>>)

\* C17: once a diagnostic is reported the parser is in panic mode and reports
\* no further diagnostic until synchronize runs at the end of the enclosing
\* declaration; synchronize skips tokens until it stands after a semicolon (or
\* the end of the input) or before class, fun, var, for, if, while, print or
\* return; compile returns CompileError if and only if at least one
\* diagnostic was reported.
C17_ErrorReporting == [][C17_Step]_vars

\* C17 witness: a compile that ended in CompileError with two diagnostics,
\* after a synchronize that skipped a token and stopped before a keyword that
\* does not follow a semicolon.
C17_Witness ==
  /\ parser.result = "CompileError"
  /\ Len(parser.stderr) >= 2
  /\ \E i \in DOMAIN parser.log :
       /\ parser.log[i].e = "at"
       /\ parser.log[i].previous \notin {"Semicolon", "Eof"}
       /\ parser.log[i].current = "Print"
       /\ i > 1 /\ parser.log[i - 1].e = "at"

(***************************************************************************)
(* C18. Redeclaration.                                                     *)
(***************************************************************************)
C18_Diagnostic(name) ==
  "[line 1] Error at '" \o name
    \o "': Already variable with this name in this scope."

\* C18: a declaration in a local scope is answered with the error exactly
\* when the same scope of the same function already declares the name; a name
\* declared only in an enclosing scope or an enclosing function is accepted,
\* and the new local is the one the name resolves to; at depth 0 nothing is
\* an error.  The diagnostics about redeclaration are those of the flagged
\* declarations outside panic mode, one each.
C18_Redeclaration ==
  /\ \A i \in DOMAIN parser.declares :
       LET d == parser.declares[i]
       IN  /\ d.depth = 0 => ~d.flagged
           /\ d.depth > 0 => (d.flagged <=> d.same)
           /\ d.depth > 0 => d.shadows
           /\ d.flagged => parser.had_error
  /\ Cardinality({j \in DOMAIN parser.stderr :
                    \E i \in DOMAIN parser.declares :
                      parser.stderr[j] = C18_Diagnostic(parser.declares[i].name)})
       = Cardinality({i \in DOMAIN parser.declares :
                        parser.declares[i].flagged
                          /\ ~parser.declares[i].panic_mode})

\* C18 witness: one compile declared a name twice at depth 0, declared a name
\* of an enclosing scope in an inner scope without complaint, and was told of
\* the redeclaration of a name in its own scope.
C18_Witness ==
  /\ parser.result = "CompileError"
  /\ \E i, j, k \in DOMAIN parser.declares :
       /\ parser.declares[i].depth = 0 /\ parser.declares[i].same
       /\ parser.declares[j].depth > 0 /\ parser.declares[j].outer
       /\ ~parser.declares[j].same /\ ~parser.declares[j].flagged
       /\ parser.declares[k].depth > 0 /\ parser.declares[k].same
       /\ parser.declares[k].flagged /\ ~parser.declares[k].panic_mode
       /\ C18_Diagnostic(parser.declares[k].name) \in
            {parser.stderr[n] : n \in DOMAIN parser.stderr}

(***************************************************************************)
(* C19. Constant limit.                                                    *)
(***************************************************************************)
\* The chunks of a parser: those of the functions being compiled and those of
\* the compiled ones.
C19_Chunks(p) ==
  {p.compilers[c].function : c \in DOMAIN p.compilers}
    \cup {p.fns[i] : i \in DOMAIN p.fns}

\* What kind of constant the operand of an instruction names.
C19_Operand(op) ==
  CASE op = "Constant" -> "num"
    [] op = "Closure" -> "fn"
    [] op \in {"DefineGlobal", "GetGlobal", "SetGlobal", "Class", "Method"} -> "str"
    [] OTHER -> ""

\* Every constant operand of the chunk fits one byte and names a constant of
\* the chunk, of the kind the instruction reads.
C19_Indexed(f) ==
  \A i \in DOMAIN f.code :
    C19_Operand(f.code[i].op) # "" =>
      /\ f.code[i].a \in 0..255
      /\ f.code[i].a < Len(f.constants)
      /\ f.constants[f.code[i].a + 1].c = C19_Operand(f.code[i].op)

C19_TooMany(lexeme) ==
  "[line 1] Error at '" \o lexeme \o "': Too many constants in one chunk."

\* The statement that begins at the current token is a number and a
\* semicolon, outside panic mode, and what follows it is a token.
C19_NumberStatement ==
  /\ At("statement")
  /\ ~parser.panic_mode
  /\ parser.current.kind = "Number"
  /\ scan_token(parser.tokens, parser.pos).kind = "Semicolon"
  /\ scan_token(parser.tokens, parser.pos + 1).kind # "Error"

\* What the statement of a number does to the chunk: the number becomes the
\* next constant; if its index fits a byte the chunk gets Constant with that
\* index, and nothing is reported; if not, the diagnostic is reported.
C19_Adds ==
  LET f == Compiler(parser).function
      g == Compiler(parser').function
  IN  /\ g.constants = Append(f.constants, ParseF64(parser.current.lexeme))
      /\ Len(f.constants) <= 255 =>
           /\ g.code = f.code \o <<I("Constant", Len(f.constants), 0),
                                   I("Pop", 0, 0)>>
           /\ parser'.stderr = parser.stderr
      /\ Len(f.constants) > 255 =>
           parser'.stderr
             = Append(parser.stderr, C19_TooMany(parser.current.lexeme))

C19_Step(limit) ==
  /\ C19_NumberStatement => C19_Adds
  /\ \A f \in C19_Chunks(parser') :
       /\ Len(f.constants) > limit => parser'.had_error
       /\ parser'.result = "Ok" => C19_Indexed(f)

\* C19: a chunk holds at most 256 constants, the indices 0 to 255 that fit
\* one byte: adding a constant beyond them is the compile error 'Too many
\* constants in one chunk.', and in an error-free compile every constant
\* operand fits one byte and indexes the constant the compiler added for it.
C19_ConstantLimit == [][C19_Step(256)]_vars

\* C19 as stated, with a limit of 255 constants: a compile without error
\* never leaves a chunk with more than 255 constants.
C19_Limit255 ==
  parser.result = "Ok" =>
    \A f \in C19_Chunks(parser) : Len(f.constants) <= 255

\* C19 witness: a compile ended in CompileError with a chunk of 257
\* constants and the diagnostic, after 256 constants had gone in without one.
C19_Witness ==
  /\ parser.result = "CompileError"
  /\ \E f \in C19_Chunks(parser) :
       /\ Len(f.constants) = 257
       /\ f.code[511].op = "Constant" /\ f.code[511].a = 255
  /\ parser.stderr = <<C19_TooMany("2")>>

(***************************************************************************)
(* C20. Mark phase terminates.                                             *)
(***************************************************************************)
\* C20: the propagation phase of every collection terminates: no run is ever
\* stuck inside Allocator::trace_references (status "Hung": the loop has
\* blackened more objects than the heap has slots, so it has blackened one
\* slot twice and goes on doing so), whatever the heap graph, an instance
\* that holds itself in a field included.
C20_MarkPhaseTerminates == status # "Hung"

(***************************************************************************)
(* C21. Concatenation rooting.                                             *)
(***************************************************************************)
\* The Vm at the moment Add calls intern for the result: the instruction
\* pointer has advanced and both operands have been popped.
C21_AtIntern == PopN(Advance(VM), 2)

C21_AddStep ==
  (/\ StepAdd
   /\ Len(stack) >= 2
   /\ Peek(VM, 0).k = "String" /\ Peek(VM, 1).k = "String") =>
    \A operand \in {Peek(VM, 0), Peek(VM, 1)} :
      /\ <<operand.h, "String">> \in Reachable(C21_AtIntern)
      /\ allocator'.objects[operand.h + 1].obj = allocator.objects[operand.h + 1].obj

\* C21: when Add concatenates two Strings, both operands are reachable from
\* the roots of the Vm at the moment the result is interned, and after the
\* step both operand strings are still in their slots: the collection that
\* intern may trigger has freed neither.
C21_ConcatenationRooting == [][C21_AddStep]_vars

(***************************************************************************)
(* C22. Frame slot 0.                                                      *)
(***************************************************************************)
\* The value a frame finds in its slot 0 (stack index slot_base): the callee
\* itself for a plain function (the Function for the script, whose closure
\* interpret allocates after the push), or an instance for a method.
C22_SlotZero(vm, frame) ==
  /\ frame.slot < Len(vm.stack)
  /\ LET value == vm.stack[frame.slot + 1]
     IN  \/ value = Ref("Closure", frame.closure)
         \/ value = Ref("Function", Deref(vm, frame.closure).function)
         \/ value.k = "Instance"

\* C22: whenever a step pushes a call frame (interpret for the script; Call,
\* Invoke or SuperInvoke for a function, method or initializer), the stack
\* slot at the frame's slot_base holds the callee being run or the receiver
\* instance, on every interpret call made on the same Vm.
C22_FrameSlotZero ==
  [][Len(frames') = Len(frames) + 1 => C22_SlotZero(VM', Last(frames'))]_vars

(***************************************************************************)
(* C23. One open upvalue per slot.                                         *)
(***************************************************************************)
\* The open list of vm holds upvalue objects only, all of them open, and no
\* two of them for the same stack location.
C23_OnePerSlot(vm) ==
  /\ \A i \in DOMAIN vm.open_upvalues :
       /\ Deref(vm, vm.open_upvalues[i]).t = "Upvalue"
       /\ Deref(vm, vm.open_upvalues[i]).closed = None
  /\ \A i, j \in DOMAIN vm.open_upvalues :
       Deref(vm, vm.open_upvalues[i]).location = Deref(vm, vm.open_upvalues[j]).location
         => i = j

\* The upvalue the closure built by a Closure step holds for captured local
\* `index` of the running frame: the one the open list already had for that
\* location, or else a new open upvalue for it, which is now in the list.
C23_Captured(handle, index) ==
  LET location == current_frame(VM).slot + index
      found == {i \in DOMAIN open_upvalues :
                  Deref(VM, open_upvalues[i]).location = location}
  IN  /\ Deref(VM', handle) = ObjUpvalue(location)
      /\ \E i \in DOMAIN open_upvalues' : open_upvalues'[i] = handle
      /\ IF found # {}
           THEN \E i \in found : handle = open_upvalues[i]
           ELSE \A i \in DOMAIN open_upvalues : handle # open_upvalues[i]

C23_CaptureStep ==
  (StepClosure /\ status' = "Running") =>
    LET function == Deref(VM, ReadConstant(VM, Fetch(VM).a).h)
        closure == Deref(VM', stack'[Len(stack')].h)
    IN  /\ SubSeq(open_upvalues', 1, Len(open_upvalues)) = open_upvalues
        /\ Len(closure.upvalues) = Len(function.upvalues)
        /\ \A i \in DOMAIN function.upvalues :
             function.upvalues[i].is_local =>
               C23_Captured(closure.upvalues[i], function.upvalues[i].index)

\* C23: at every point of execution the open-upvalue list holds at most one
\* upvalue per stack location and every upvalue in it is open; and the
\* capture of a local by a Closure instruction yields the open upvalue the
\* list already has for that location when there is one, and otherwise a new
\* open upvalue for the location, appended to the list.
C23_OneOpenUpvaluePerSlot == [][C23_OnePerSlot(VM') /\ C23_CaptureStep]_vars

\* C23 witness: two upvalues are open for two different stack locations while
\* a closure on the stack shares the one another closure captured before it.
C23_Witness ==
  /\ status = "Running"
  /\ Len(open_upvalues) = 2
  /\ \E i, j \in DOMAIN stack :
       /\ i < j
       /\ stack[i].k = "Closure" /\ stack[j].k = "Closure"
       /\ Deref(VM, stack[i].h).upvalues # <<>>
       /\ Deref(VM, stack[i].h).upvalues = Deref(VM, stack[j].h).upvalues

(***************************************************************************)
(* C24. Open upvalues point into the stack.                                *)
(***************************************************************************)
\* C24: at every instruction boundary (the Vm is about to execute an
\* instruction, or interpret has returned) the location of every upvalue in
\* the open list is an index of the current stack.
C24_OpenUpvaluesInStack ==
  status \in {"Running", "Ok", "RuntimeError"} =>
    \A i \in DOMAIN open_upvalues :
      Deref(VM, open_upvalues[i]).location < Len(stack)

(***************************************************************************)
(* C25. Closing upvalues.                                                  *)
(***************************************************************************)
\* What a step that calls close_upvalues(threshold) on the stack `values`
\* has done to the open list: the upvalues at or above the threshold are out
\* of the list and hold the stack value of their location, and the list is
\* what it was without them, each remaining upvalue unchanged.
C25_Closed(threshold, values) ==
  LET Below(u) == Deref(VM, u).location < threshold
  IN  /\ open_upvalues' = SelectSeq(open_upvalues, Below)
      /\ \A i \in DOMAIN open_upvalues :
           LET u == open_upvalues[i]
               location == Deref(VM, u).location
           IN  IF location >= threshold
                 THEN Deref(VM', u) =
                        [ObjUpvalue(location) EXCEPT !.closed = Some(values[location + 1])]
                 ELSE Deref(VM', u) = Deref(VM, u)

C25_CloseStep ==
  /\ (StepCloseUpvalue /\ status' # "Panic") =>
       /\ C25_Closed(Len(stack) - 1, stack)
       /\ stack' = Front(stack)
  /\ (StepReturn /\ status' # "Panic") =>
       C25_Closed(current_frame(VM).slot, Front(stack))

\* C25: close_upvalues(t) closes exactly the open upvalues whose location is
\* at least t: each gets the stack value at its location as its closed value
\* and leaves the open list, and the upvalues below t stay in the list, in
\* their order and unchanged.  CloseUpvalue calls it with the index of the
\* stack top and then pops; Return calls it with the slot base of the frame
\* it pops, after popping the return value.
C25_ClosingUpvalues == [][C25_CloseStep]_vars

\* C25 witness: the CloseUpvalue at the end of the inner block of P_upvalues
\* has closed the upvalue of z with the value 4 that h stored through it,
\* while the upvalues of x and y (locations 1 and 2) are still open.
C25_Witness ==
  /\ lines = <<ProgId("P_upvalues")>>
  /\ status = "Running"
  /\ Len(stack) = 5
  /\ Len(open_upvalues) = 2
  /\ {Deref(VM, open_upvalues[i]).location : i \in DOMAIN open_upvalues} = {1, 2}
  /\ \E i \in DOMAIN allocator.objects :
       allocator.objects[i].obj = [ObjUpvalue(5) EXCEPT !.closed = Some(Num(4))]

(***************************************************************************)
(* C26. Return.                                                            *)
(***************************************************************************)
C26_ReturnStep ==
  (StepReturn /\ status' # "Panic") =>
    LET frame == current_frame(VM)
        return_value == Peek(VM, 0)
        Below(u) == Deref(VM, u).location < frame.slot
    IN  /\ frames' = IF Len(frames) = 1 THEN <<>> ELSE Front(frames)
        /\ open_upvalues' = SelectSeq(open_upvalues, Below)
        /\ IF Len(frames) > 1
             THEN /\ status' = "Running"
                  /\ Len(stack') = frame.slot + 1
                  /\ stack'[frame.slot + 1] = return_value
                  /\ \A i \in 1..frame.slot : stack'[i] = stack[i]
             ELSE status' = "Ok"

\* C26: Return pops the return value and the current frame and closes the
\* open upvalues from the frame's slot base on.  When frames remain, the
\* stack is then the slots below the slot base followed by the return value
\* (one result in place of the callee and its arguments) and the frame below
\* goes on at its saved ip; when the frame was the last one, interpret
\* returns Ok.
C26_Return == [][C26_ReturnStep]_vars

(***************************************************************************)
(* C27. VM consistency panics are unreachable.                             *)
(***************************************************************************)
\* Every value in the method table of a class is a Closure, and the class of
\* every instance is a Class object.
C27_Heap ==
  \A i \in DOMAIN allocator.objects :
    LET obj == allocator.objects[i].obj
    IN  /\ obj.t = "Class" =>
             \A name \in DOMAIN obj.methods : obj.methods[name].k = "Closure"
        /\ obj.t = "Instance" => IsObj(VM, obj.class, "Class")

\* C27: the heap is consistent (C27_Heap), and the Vm is never about to run
\* into one of its consistency panics: a Method instruction finds a Class
\* under the method closure ('Invalid state: trying to define a method of non
\* class'), and GetSuper and SuperInvoke find a Class on top of the stack
\* ('super found no class', 'super invoke with no class'); with C27_Heap
\* the two 'method is not closure' panics cannot happen either.
C27_NoConsistencyPanic ==
  /\ C27_Heap
  /\ status = "Running" =>
       /\ (Fetch(VM).op = "Method" /\ Len(stack) >= 2) => Peek(VM, 1).k = "Class"
       /\ (Fetch(VM).op \in {"GetSuper", "SuperInvoke"} /\ stack # <<>>) =>
            Peek(VM, 0).k = "Class"

(***************************************************************************)
(* C28. Sweep.                                                             *)
(***************************************************************************)
\* No object of a is marked and its grey stack is empty.
C28_Clean(a) ==
  /\ a.grey_stack = <<>>
  /\ \A i \in DOMAIN a.objects : ~a.objects[i].is_marked

\* The allocator `swept` is what a collection leaves of the allocator
\* `traced` (the heap when the mark phase has ended): the marked objects, in
\* their slots and unmarked, and an empty slot for every other one, each slot
\* emptied by this collection once more in the free list.
C28_Swept(traced, swept) ==
  LET freed == {i \in DOMAIN traced.objects :
                  ~traced.objects[i].is_marked /\ traced.objects[i].obj.t # "Empty"}
      Times(index) == Cardinality({k \in DOMAIN swept.free_slots : swept.free_slots[k] = index})
  IN  /\ DOMAIN swept.objects = DOMAIN traced.objects
      /\ \A i \in DOMAIN traced.objects :
           swept.objects[i] = IF traced.objects[i].is_marked
                                THEN [traced.objects[i] EXCEPT !.is_marked = FALSE]
                                ELSE ObjHeaderEmpty
      /\ SubSeq(swept.free_slots, 1, Len(traced.free_slots)) = traced.free_slots
      /\ Len(swept.free_slots) = Len(traced.free_slots) + Cardinality(freed)
      /\ \A i \in DOMAIN traced.objects :
           Times(i - 1) = IF traced.objects[i].is_marked THEN 0 ELSE 1
      /\ C28_Clean(swept)

\* The mark phase of a collection started in the current state of the Vm.
C28_Traced == TraceReferences(MarkRoots(VM), Len(allocator.objects) + 1)

\* C28: between collections no object is marked and the grey stack is empty,
\* and a collection whose mark phase ends leaves exactly the marked objects
\* allocated, with their mark cleared, and has freed every other object once.
C28_Sweep ==
  status # "Hung" =>
    /\ C28_Clean(allocator)
    /\ C28_Traced.done =>
         /\ CollectGarbage(MarkRoots(VM)).done
         /\ C28_Swept(C28_Traced.a, CollectGarbage(MarkRoots(VM)).a)

\* C28 witness: in the stress build a collection has freed objects before,
\* and one started now would keep objects and free at least one more.
C28_Witness ==
  /\ stress /\ status = "Running"
  /\ allocator.free_slots # <<>>
  /\ C28_Traced.done
  /\ \E i \in DOMAIN allocator.objects :
       /\ ~C28_Traced.a.objects[i].is_marked
       /\ allocator.objects[i].obj.t # "Empty"
  /\ \E i \in DOMAIN allocator.objects : C28_Traced.a.objects[i].is_marked

(***************************************************************************)
(* C29. Intern-table sweep.                                                *)
(***************************************************************************)
\* The intern table of `swept` holds exactly the strings that were marked
\* in `traced`, each under its contents, and intern returns each of them.
C29_Retained(traced, swept) ==
  /\ StringObjects(swept) = {h \in StringObjects(traced) : traced.objects[h + 1].is_marked}
  /\ {swept.strings[name] : name \in DOMAIN swept.strings} = StringObjects(swept)
  /\ \A name \in DOMAIN swept.strings :
       /\ swept.objects[swept.strings[name] + 1].obj = StringObj(name)
       /\ traced.strings[name] = swept.strings[name]
       /\ InternIndex(swept, name) = swept.strings[name]
       /\ AllocatorIntern(swept, name) = swept

\* The key a string handle is in a Table of table.rs; the hashes all fall on
\* the last entry of a table of 8, so that the probing wraps around.
C29_Key(h) == [id |-> h, hash |-> 7 + 8 * (h % 3)]

\* The Table that holds the strings of a, set in the order of their handles
\* from handle h on.
RECURSIVE C29_TableFrom(_, _, _)
C29_TableFrom(a, t, h) ==
  IF h >= Len(a.objects) THEN t
  ELSE IF h \in StringObjects(a)
    THEN C29_TableFrom(a, set(t, C29_Key(h), Nil).t, h + 1)
    ELSE C29_TableFrom(a, t, h + 1)

\* The loop of gc.rs over that Table examines every entry once, in order,
\* and leaves the keys of the marked strings, and only them.
C29_Iterated(traced) ==
  LET t == C29_TableFrom(traced, TableNew, 0)
      marked == {h \in StringObjects(traced) : traced.objects[h + 1].is_marked}
      swept == remove_white_strings(t, marked)
  IN  /\ swept.examined = [i \in 1..t.capacity |-> i - 1]
      /\ ~swept.t.hung
      /\ \A h \in StringObjects(traced) :
           get(swept.t, C29_Key(h)) = IF h \in marked THEN Some(Nil) ELSE None

\* C29: a collection whose mark phase ends leaves an intern table with an
\* entry for exactly the String objects that survive it: no entry refers to
\* a freed string, and intern still returns every surviving string for its
\* contents; and the loop that deletes the unmarked keys while it iterates
\* over the table examines every entry exactly once.
C29_InternTableSweep ==
  (status # "Hung" /\ C28_Traced.done) =>
    /\ C29_Retained(C28_Traced.a, CollectGarbage(MarkRoots(VM)).a)
    /\ C29_Iterated(C28_Traced.a)

\* C29 witness: in the stress build P_strings has printed "abab"; the string
\* is still in the intern table, a collection started now would free it and
\* drop its entry, and would keep "ab".
C29_Witness ==
  /\ stress /\ status = "Running"
  /\ lines = <<ProgId("P_strings")>>
  /\ out = <<"true", "abab">>
  /\ C28_Traced.done
  /\ "abab" \in DOMAIN allocator.strings
  /\ ~C28_Traced.a.objects[allocator.strings["abab"] + 1].is_marked
  /\ "abab" \notin DOMAIN CollectGarbage(MarkRoots(VM)).a.strings
  /\ "ab" \in DOMAIN CollectGarbage(MarkRoots(VM)).a.strings

(***************************************************************************)
(* C30. Open-upvalue list order.                                           *)
(***************************************************************************)
\* C30 as stated: in every state the locations of the open-upvalue list are
\* in strictly descending order.
C30_Descending ==
  \A i, j \in DOMAIN open_upvalues :
    i < j => Deref(VM, open_upvalues[i]).location > Deref(VM, open_upvalues[j]).location

\* A step leaves the upvalues it keeps in the order they had, at the head of
\* the list, and puts the upvalues it adds behind them.
C30_OrderStep ==
  LET Kept(u) == u \in Range(open_upvalues')
      kept == SelectSeq(open_upvalues, Kept)
  IN  /\ Len(open_upvalues') >= Len(kept)
      /\ SubSeq(open_upvalues', 1, Len(kept)) = kept
      /\ \A i \in (Len(kept) + 1)..Len(open_upvalues') :
           open_upvalues'[i] \notin Range(open_upvalues)

\* C30 (amended): the open-upvalue list is in the order of capture, not in
\* the order of the locations: capture_upvalue appends the upvalue it
\* allocates and close_upvalues removes the upvalues it closes without
\* moving the others.
C30_CaptureOrder == [][C30_OrderStep]_vars

\* C30 witness: P_upvalues has captured x (location 1) and then y (location
\* 2) for f and z (location 5) for h: the list is in ascending order.
C30_Witness ==
  /\ lines = <<ProgId("P_upvalues")>>
  /\ status = "Running"
  /\ [i \in DOMAIN open_upvalues |-> Deref(VM, open_upvalues[i]).location] = <<1, 2, 5>>

(***************************************************************************)
(* C31. Upvalue lifecycle.                                                 *)
(***************************************************************************)
\* The handles of the upvalue objects of vm that are closed.
C31_ClosedUpvalues(vm) ==
  {h \in 0..(Len(vm.a.objects) - 1) :
     vm.a.objects[h + 1].obj.t = "Upvalue" /\ vm.a.objects[h + 1].obj.closed.some}

\* An upvalue enters the open list open, and the list never holds a closed
\* upvalue.
C31_CreatedOpen ==
  \A i \in DOMAIN open_upvalues' :
    /\ Deref(VM', open_upvalues'[i]).t = "Upvalue"
    /\ ~Deref(VM', open_upvalues'[i]).closed.some

\* A live (reachable) closed upvalue stays an upvalue whose closed field is
\* Some, with its location, and is not in the open list after the step.
C31_StaysClosed ==
  \A th \in Reachable(VM) :
    th[2] = "Upvalue" /\ th[1] \in C31_ClosedUpvalues(VM) =>
      /\ th[1] \in C31_ClosedUpvalues(VM')
      /\ Deref(VM', th[1]).location = Deref(VM, th[1]).location
      /\ th[1] \notin Range(open_upvalues')

\* An upvalue goes from open to closed only in a step that calls
\* close_upvalues (CloseUpvalue, Return).
C31_ClosedByClose ==
  (\E h \in OpenUpvalueObjects(VM) \cap C31_ClosedUpvalues(VM') : h \in Range(open_upvalues))
    => StepCloseUpvalue \/ StepReturn

\* GetUpvalue through a closed upvalue pushes the closed value; SetUpvalue
\* through a closed upvalue stores the top of the stack as the closed value
\* and leaves every stack slot as it was.
C31_ThroughClosed ==
  LET u == current_closure(VM).upvalues[Fetch(VM).a + 1]
  IN  /\ StepGetUpvalue /\ status' = "Running" /\ u \in C31_ClosedUpvalues(VM) =>
           /\ stack' = Append(stack, Deref(VM, u).closed.v)
           /\ Deref(VM', u) = Deref(VM, u)
      /\ StepSetUpvalue /\ status' = "Running" /\ u \in C31_ClosedUpvalues(VM) =>
           /\ stack' = stack
           /\ Deref(VM', u) = [Deref(VM, u) EXCEPT !.closed = Some(Last(stack))]

C31_LifecycleStep ==
  status = "Running" /\ status' # "Hung" =>
    /\ C31_CreatedOpen
    /\ C31_StaysClosed
    /\ C31_ClosedByClose
    /\ C31_ThroughClosed

\* C31: an upvalue is created open and closed at most once: it enters the
\* open list open, only close_upvalues closes it, and once closed it is never
\* in the open list again and its closed field stays Some while it lives;
\* GetUpvalue and SetUpvalue through a closed upvalue read and write the
\* closed value and no stack slot.
C31_UpvalueLifecycle == [][C31_LifecycleStep]_vars

\* C31 witness: in P_share_return the upvalue of x was closed by Return and
\* set(3) has since stored 3 in its closed field, which get then printed, the
\* open list being empty.
C31_Witness ==
  /\ lines = <<ProgId("P_share_return")>>
  /\ out = <<"2", "2", "3">>
  /\ open_upvalues = <<>>
  /\ \E h \in C31_ClosedUpvalues(VM) : Deref(VM, h).closed.v = Num(3)

(***************************************************************************)
(* C32. Invoke fast path.                                                  *)
(***************************************************************************)
\* The slow path from the vm at an Invoke(constant, arg_count): GetProperty
\* on the receiver below the arguments, then Call with the arguments back on
\* the stack.
C32_GetThenCall(vm, constant, arg_count, t) ==
  LET args == SubSeq(vm.stack, Len(vm.stack) - arg_count + 1, Len(vm.stack))
      property == ExecGetProperty(PopN(vm, arg_count), constant)
  IN  IF property.status # "Running" THEN property
      ELSE ExecCall([property EXCEPT !.stack = @ \o args], arg_count, t)

C32_BoundMethods(a) ==
  {h \in 0..(Len(a.objects) - 1) : a.objects[h + 1].obj.t = "BoundMethod"}

C32_InvokeStep ==
  StepInvoke /\ status' = "Running" /\ Peek(VM, Fetch(VM).b).k = "Instance" =>
    LET arg_count == Fetch(VM).b
        name == ReadConstant(VM, Fetch(VM).a).h
        receiver == Peek(VM, arg_count)
        instance == Deref(VM, receiver.h)
    IN  /\ \E t \in 0..MaxClock :
             /\ C32_GetThenCall(Advance(VM), Fetch(VM).a, arg_count, t).status = "Running"
             /\ frames' = C32_GetThenCall(Advance(VM), Fetch(VM).a, arg_count, t).frames
             /\ stack' = C32_GetThenCall(Advance(VM), Fetch(VM).a, arg_count, t).stack
        /\ \A h \in C32_BoundMethods(allocator') :
             h \in C32_BoundMethods(allocator) /\ Deref(VM', h) = Deref(VM, h)
        /\ ~TableHas(instance.fields, name) =>
             /\ stack' = stack
             /\ frames' = Append(Advance(VM).frames,
                                 CallFrame(Deref(VM, instance.class).methods[name].h,
                                           Len(stack) - arg_count - 1))
             /\ stack'[Last(frames').slot + 1] = receiver

\* C32: a successful Invoke(name, argc) on an Instance leaves the frames and
\* the stack as GetProperty(name) on the receiver followed by Call(argc)
\* would, and allocates no BoundMethod; when the instance has no field of
\* that name the class method is called with the receiver in slot 0.
C32_InvokeFastPath == [][C32_InvokeStep]_vars

\* C32 witness: in P_invoke_args the method m was invoked with two arguments
\* (3 printed), then the closure in field m, which hides the method (4
\* printed); a.c() has then called the class held by field c, and no
\* BoundMethod exists.
C32_Witness ==
  /\ lines = <<ProgId("P_invoke_args")>>
  /\ status = "Ok"
  /\ out = <<"3", "4", "A instance">>
  /\ C32_BoundMethods(allocator) = {}

(***************************************************************************)
(* C33. Scope exit.                                                        *)
(***************************************************************************)
\* The instructions end_scope emits for the locals from the last one down to
\* local i (1-based) that are deeper than depth.
RECURSIVE C33_Emitted(_, _, _)
C33_Emitted(locals, depth, i) ==
  IF i = 0 THEN <<>>
  ELSE IF locals[i].depth > depth
    THEN <<IF locals[i].is_captured THEN I("CloseUpvalue", 0, 0) ELSE I("Pop", 0, 0)>>
           \o C33_Emitted(locals, depth, i - 1)
    ELSE C33_Emitted(locals, depth, i - 1)

\* A Vm whose running frame holds one value per local, with an open upvalue
\* for every captured local from local i (1-based) on.
RECURSIVE C33_Captured(_, _, _)
C33_Captured(vm, locals, i) ==
  IF i > Len(locals) THEN vm
  ELSE C33_Captured(IF locals[i].is_captured THEN capture_upvalue(vm, i - 1) ELSE vm,
                    locals, i + 1)

C33_Frame(locals) ==
  C33_Captured([VmNew(FALSE) EXCEPT !.stack = [i \in DOMAIN locals |-> Nil],
                                    !.status = "Running"],
               locals, 1)

\* The vm after the instructions of code, from instruction i (1-based) on.
RECURSIVE C33_Run(_, _, _)
C33_Run(vm, code, i) ==
  IF i > Len(code) \/ vm.status # "Running" THEN vm
  ELSE C33_Run(Execute(vm, code[i], 0), code, i + 1)

\* A step that leaves a scope of the function being compiled: the end of a
\* block, of a for statement, or of the scope of super.
C33_EndScopeStep ==
  /\ parser.result = "Compiling"
  /\ Len(parser'.compilers) = Len(parser.compilers)
  /\ Compiler(parser').scope_depth = Compiler(parser).scope_depth - 1
  =>
  LET locals == Compiler(parser).locals
      depth == Compiler(parser').scope_depth
      Outer(local) == local.depth <= depth
      emitted == C33_Emitted(locals, depth, Len(locals))
      code == Compiler(parser').function.code
      after == C33_Run(C33_Frame(locals), emitted, 1)
  IN  /\ Compiler(parser').locals = SelectSeq(locals, Outer)
      /\ Compiler(parser').locals = SubSeq(locals, 1, Len(Compiler(parser').locals))
      /\ Len(code) >= Len(emitted)
      /\ SubSeq(code, Len(code) - Len(emitted) + 1, Len(code)) = emitted
      /\ EndScope => code = Compiler(parser).function.code \o emitted
      /\ after.status = "Running"
      /\ Len(after.stack) = Len(Compiler(parser').locals)
      /\ \A i \in DOMAIN after.open_upvalues :
           Deref(after, after.open_upvalues[i]).location < Len(after.stack)

\* C33: end_scope removes from the compiler's locals exactly the locals
\* deeper than the new scope depth, leaving the others as they were, and
\* emits one instruction for each of them from the last declared to the
\* first, CloseUpvalue for a captured local and Pop otherwise; run on a frame
\* that holds one value per local, the emitted instructions leave one value
\* per local still in scope.
C33_ScopeExit == [][C33_EndScopeStep]_vars

\* C33 witness: the block { var a; fun f() { var b = a; ... has ended: the
\* script's code ends with the Pop of f and the CloseUpvalue of the captured
\* a, and only the local of slot 0 is left.
C33_Witness ==
  /\ parser.result = "Compiling"
  /\ Len(parser.compilers) = 1
  /\ Compiler(parser).scope_depth = 0
  /\ Len(Compiler(parser).locals) = 1
  /\ Len(Compiler(parser).function.code) >= 2
  /\ LET code == Compiler(parser).function.code
     IN  SubSeq(code, Len(code) - 1, Len(code)) = <<I("Pop", 0, 0), I("CloseUpvalue", 0, 0)>>

(***************************************************************************)
(* C34. Control-flow lowering keeps the stack balanced.                    *)
(***************************************************************************)
\* What an instruction of Vm::run that stays in its frame adds to the height
\* of the stack.
C34_Effect(i) ==
  CASE i.op \in {"Constant", "Nil", "True", "False", "GetLocal", "GetGlobal",
                 "GetUpvalue", "Closure", "Class"} -> 1
    [] i.op \in {"Pop", "Print", "DefineGlobal", "Add", "Substract", "Multiply",
                 "Divide", "Equal", "Greater", "Less", "CloseUpvalue", "Inherit",
                 "Method", "SetProperty", "GetSuper"} -> -1
    [] i.op = "Call" -> -i.a
    [] i.op = "Invoke" -> -i.b
    [] i.op = "SuperInvoke" -> -(i.b + 1)
    [] OTHER -> 0

\* The indices at which Vm::run goes on after the instruction at index i.
C34_Successors(code, i) ==
  LET ins == code[i + 1]
  IN  CASE ins.op = "Jump" -> {i + 1 + ins.a}
        [] ins.op = "JumpIfFalse" -> {i + 1, i + 1 + ins.a}
        [] ins.op = "Loop" -> {i - ins.a}
        [] ins.op = "Return" -> {}
        [] OTHER -> {i + 1}

\* The stack heights of the code from instruction i on: acc.h[j] is the
\* height in which every path so far reaches index j (-1: none does), acc.ok
\* is false once two paths reach an index in different heights.  A jump
\* that is not patched yet goes nowhere.
RECURSIVE C34_Flow(_, _, _)
C34_Flow(code, i, acc) ==
  IF i >= Len(code) \/ ~acc.ok THEN acc
  ELSE IF acc.h[i] = -1 THEN C34_Flow(code, i + 1, acc)
  ELSE LET height == acc.h[i] + C34_Effect(code[i + 1])
           next == C34_Successors(code, i) \cap (0..Len(code))
       IN  C34_Flow(code, i + 1,
                    [h |-> [j \in 0..Len(code) |->
                              IF j \in next /\ acc.h[j] = -1 THEN height ELSE acc.h[j]],
                     ok |-> height >= 0 /\ \A j \in next : acc.h[j] \in {-1, height}])

\* The heights of code entered with `height` values in the frame.
C34_Heights(code, height) ==
  C34_Flow(code, 0, [h |-> [j \in 0..Len(code) |-> IF j = 0 THEN height ELSE -1],
                     ok |-> TRUE])

C34_HasJump(code) ==
  \E i \in DOMAIN code : code[i].op \in {"Jump", "JumpIfFalse", "Loop"}

\* The parser is between two statements of the function it compiles.
C34_BetweenStatements ==
  /\ parser.result = "Compiling"
  /\ parser.frames # <<>>
  /\ Last(parser.frames).pc \in {"compile", "statement", "block", "end_scope", "if_then",
                                 "if_else", "while_end", "for_end"}

\* C34: in the code emitted for if/else, while, for, and, or, the value
\* JumpIfFalse peeks is popped once on every path: every instruction is
\* reached in one stack height whatever the path, and between two statements
\* (so after a complete if, while or for, whose condition and and/or operands
\* are gone) the frame holds exactly the function's locals.
C34_StackBalanced ==
  C34_BetweenStatements /\ ~parser.had_error
    /\ C34_HasJump(Compiler(parser).function.code) =>
    LET code == Compiler(parser).function.code
        arity == Compiler(parser).function.arity
        flow == C34_Heights(code, arity + 1)
    IN  /\ flow.ok
        /\ flow.h[Len(code)] \in {-1, Len(Compiler(parser).locals)}

\* C34 witness: the function f of the control-flow sources, with a while, a
\* for and an if around "return a and b" and a final "return a or 1", is
\* compiled to its last statement without error.
C34_Witness ==
  /\ C34_BetweenStatements
  /\ ~parser.had_error
  /\ Len(parser.compilers) = 2
  /\ LET code == Compiler(parser).function.code
     IN  /\ Cardinality({i \in DOMAIN code : code[i].op = "JumpIfFalse"}) = 5
         /\ Cardinality({i \in DOMAIN code : code[i].op = "Loop"}) = 3
         /\ Cardinality({i \in DOMAIN code : code[i].op = "Return"}) = 2

(***************************************************************************)
(* C35. Jump targets.                                                      *)
(***************************************************************************)
\* A Vm about to execute the instruction it fetched at index pos: the ip is
\* past the instruction, the top of the stack is falsey.
C35_Fetched(pos) ==
  [frames |-> <<[CallFrame(0, 0) EXCEPT !.ip = pos + 1]>>, stack |-> <<Nil>>,
   status |-> "Running"]

\* Where run goes on after the jump at index pos of code, when it is taken.
C35_Target(code, pos) ==
  LET ins == code[pos + 1]
  IN  current_frame(CASE ins.op = "Jump" -> ExecJump(C35_Fetched(pos), ins.a)
                      [] ins.op = "JumpIfFalse" -> ExecJumpIfFalse(C35_Fetched(pos), ins.a)
                      [] ins.op = "Loop" -> ExecLoop(C35_Fetched(pos), ins.a)).ip

C35_Jumps(code) ==
  {pos \in 0..(Len(code) - 1) : code[pos + 1].op \in {"Jump", "JumpIfFalse"}}

C35_Loops(code) == {pos \in 0..(Len(code) - 1) : code[pos + 1].op = "Loop"}

\* patch_jump(pos) on the code emitted so far makes the jump at pos go to the
\* end of that code, and changes no other instruction.
C35_PatchJump ==
  LET code == Compiler(parser).function.code
  IN  \A pos \in C35_Jumps(code) :
        LET patched == Compiler(patch_jump(parser, pos)).function.code
        IN  /\ C35_Target(patched, pos) = Len(code)
            /\ Len(patched) = Len(code)
            /\ \A i \in DOMAIN code : i # pos + 1 => patched[i] = code[i]

\* emit_loop(start) appends a Loop that goes to start.
C35_EmitLoop ==
  LET code == Compiler(parser).function.code
  IN  \A start \in 0..Len(code) :
        LET looped == Compiler(emit_loop(parser, start)).function.code
        IN  /\ looped = Append(code, Last(looped))
            /\ Last(looped).op = "Loop"
            /\ C35_Target(looped, Len(code)) = start

\* Every jump of a compiled function is patched and goes to an instruction
\* of the function.
C35_Inside(code) ==
  \A pos \in C35_Jumps(code) \cup C35_Loops(code) :
    /\ code[pos + 1].a # 65535
    /\ C35_Target(code, pos) \in 0..(Len(code) - 1)

\* C35: a patched Jump or taken JumpIfFalse goes on at the index that was
\* the length of the chunk when patch_jump ran, the Loop of emit_loop(start)
\* goes on at start, and every jump of a function compiled without error has
\* its target inside the function's chunk.
C35_JumpTargets ==
  /\ parser.result = "Compiling" /\ Len(Compiler(parser).function.code) < U8_MAX =>
       C35_PatchJump /\ C35_EmitLoop
  /\ ~parser.had_error =>
       /\ \A i \in DOMAIN parser.fns : C35_Inside(parser.fns[i].code)
       /\ parser.result = "Ok" => C35_Inside(Compiler(parser).function.code)

\* C35 witness: the script with a while around an if/else whose condition
\* has and and or is compiled: four patched JumpIfFalse, two patched Jump and
\* one Loop that goes back to the condition of the while at index 2.
C35_Witness ==
  /\ parser.result = "Ok"
  /\ LET code == Compiler(parser).function.code
     IN  /\ Cardinality({pos \in C35_Jumps(code) : code[pos + 1].op = "JumpIfFalse"}) = 4
         /\ Cardinality({pos \in C35_Jumps(code) : code[pos + 1].op = "Jump"}) = 2
         /\ \E pos \in C35_Loops(code) : C35_Target(code, pos) = 2

(***************************************************************************)
(* C36. Upvalue resolution.                                                *)
(***************************************************************************)
\* The variable that descriptor i of the function at place c of the chain of
\* compilers names: the place of the function that declares it and its slot.
RECURSIVE C36_Variable(_, _, _)
C36_Variable(compilers, c, i) ==
  LET upvalue == compilers[c].function.upvalues[i + 1]
  IN  IF upvalue.is_local THEN <<c - 1, upvalue.index>>
      ELSE C36_Variable(compilers, c - 1, upvalue.index)

\* The nearest function enclosing place c that has a local of that name, or
\* 0, and the slot of the local.
RECURSIVE C36_Declaring(_, _, _)
C36_Declaring(compilers, c, name) ==
  IF c = 1 THEN 0
  ELSE IF FindLocal(compilers[c - 1].locals, name, Len(compilers[c - 1].locals)) >= 0
    THEN c - 1
    ELSE C36_Declaring(compilers, c - 1, name)

C36_Slot(compilers, c, name) ==
  FindLocal(compilers[c].locals, name, Len(compilers[c].locals))

\* A descriptor list holds no pair twice and at most 256 pairs.
C36_Deduplicated(upvalues) ==
  /\ Len(upvalues) <= LOCAL_COUNT
  /\ \A i, j \in DOMAIN upvalues : upvalues[i] = upvalues[j] => i = j

\* The names of the locals of the functions being compiled, and one that
\* none of them declares.
C36_Names ==
  UNION {{parser.compilers[c].locals[i].name.lexeme :
            i \in 1..Len(parser.compilers[c].locals)} : c \in DOMAIN parser.compilers}
    \cup {"undeclared"}

\* The names resolve_upvalue is asked for: in the script, which has no
\* enclosing function to look in, a name of no local; in a function, that
\* name and the name of every local of the chain.
C36_Asked == IF Len(parser.compilers) = 1 THEN {"undeclared"} ELSE C36_Names

\* resolve_upvalue of `name` in the function being compiled, from the state
\* of the parser: r is the parser after the call, r.ret the index or -1.
C36_Resolved(name, r) ==
  LET top == Len(parser.compilers)
      declaring == C36_Declaring(parser.compilers, top, name)
  IN  /\ \A c \in DOMAIN r.compilers :
           LET before == parser.compilers[c].function.upvalues
               after == r.compilers[c].function.upvalues
           IN  /\ C36_Deduplicated(after)
               /\ Len(after) \in {Len(before), Len(before) + 1}
               /\ SubSeq(after, 1, Len(before)) = before
               /\ Len(after) > Len(before) => c \in (declaring + 1)..top
      /\ IF declaring = 0
           THEN r.ret = -1 /\ r.compilers = parser.compilers
           ELSE LET slot == C36_Slot(parser.compilers, declaring, name)
                    upvalue == r.compilers[top].function.upvalues[r.ret + 1]
                IN  /\ r.ret \in 0..(Len(r.compilers[top].function.upvalues) - 1)
                    /\ C36_Variable(r.compilers, top, r.ret) = <<declaring, slot>>
                    /\ r.compilers[declaring].locals[slot + 1].is_captured
                    /\ IF declaring = top - 1
                         THEN upvalue = Upv(slot, TRUE)
                         ELSE /\ ~upvalue.is_local
                              /\ upvalue.index <
                                   Len(r.compilers[top - 1].function.upvalues)
                    /\ \A c \in DOMAIN r.compilers :
                         \A i \in DOMAIN r.compilers[c].locals :
                           c # declaring \/ i # slot + 1 =>
                             r.compilers[c].locals[i] = parser.compilers[c].locals[i]

\* The descriptors of the functions being compiled name locals and upvalues
\* the enclosing function has, the locals marked as captured.
C36_WellFormed ==
  /\ \A c \in DOMAIN parser.compilers :
       /\ C36_Deduplicated(parser.compilers[c].function.upvalues)
       /\ \A i \in DOMAIN parser.compilers[c].function.upvalues :
            LET upvalue == parser.compilers[c].function.upvalues[i]
            IN  /\ c > 1
                /\ IF upvalue.is_local
                     THEN /\ upvalue.index < Len(parser.compilers[c - 1].locals)
                          /\ parser.compilers[c - 1].locals[upvalue.index + 1].is_captured
                     ELSE upvalue.index < Len(parser.compilers[c - 1].function.upvalues)
  /\ \A f \in DOMAIN parser.fns : C36_Deduplicated(parser.fns[f].upvalues)

RECURSIVE C36_AllocAll(_, _, _)
C36_AllocAll(vm, objects, i) ==
  IF i > Len(objects) THEN vm
  ELSE C36_AllocAll(AllocAfterGc(vm, objects[i]), objects, i + 1)

\* A Vm about to run the Closure instruction for the function `inner` in a
\* frame of the function of the compiler `enclosing`: the frame is at slot 2,
\* every stack slot holds its own index, and upvalue j of the running closure
\* is closed over the number j.
C36_AtClosure(inner, enclosing) ==
  LET fresh == VmNew(FALSE)
      n == Len(fresh.a.objects)
      k == Len(enclosing.function.upvalues)
      objects ==
        <<LoxFunction(inner.arity, [code |-> inner.code], <<>>, 0, inner.upvalues)>>
          \o [j \in 1..k |-> [ObjUpvalue(0) EXCEPT !.closed = Some(Num(j))]]
          \o <<LoxFunction(0, [code |-> <<>>], <<Ref("Function", n)>>, 0,
                           enclosing.function.upvalues),
               [Closure(n + k + 1) EXCEPT !.upvalues = [j \in 1..k |-> n + j]]>>
  IN  [C36_AllocAll(fresh, objects, 1)
         EXCEPT !.frames = <<CallFrame(n + k + 2, 2)>>,
                !.stack = [i \in 1..(2 + Len(enclosing.locals)) |-> Num(i - 1)],
                !.status = "Running"]

\* The Vm after the Closure instruction and the call of the new closure.
C36_Called(vm) ==
  [vm EXCEPT !.frames = Append(@, CallFrame(Peek(vm, 0).h, Len(vm.stack) - 1))]

\* Closure fills the upvalues in the order of the descriptors, and
\* GetUpvalue(i) in the new closure reads the variable descriptor i names:
\* the local of the enclosing frame, or upvalue index of the running closure.
C36_ClosureReads(inner, enclosing) ==
  LET closed == ExecClosure(C36_AtClosure(inner, enclosing), 0)
  IN  /\ closed.status = "Running"
      /\ Peek(closed, 0).k = "Closure"
      /\ Len(Deref(closed, Peek(closed, 0).h).upvalues) = Len(inner.upvalues)
      /\ \A i \in DOMAIN inner.upvalues :
           LET read == ExecGetUpvalue(C36_Called(closed), i - 1)
           IN  /\ read.status = "Running"
               /\ Peek(read, 0) = IF inner.upvalues[i].is_local
                                    THEN Num(2 + inner.upvalues[i].index)
                                    ELSE Num(inner.upvalues[i].index + 1)

\* add_upvalue on the function being compiled when its list has 256 pairs:
\* a pair of the list is found, a new pair is refused with the error and
\* the list stays as it is.
C36_AtLimit ==
  LET top == Len(parser.compilers)
      full == [parser EXCEPT !.compilers[top].function.upvalues =
                               [i \in 1..LOCAL_COUNT |-> Upv(i - 1, i % 2 = 0)]]
  IN  /\ add_upvalue(full, top, LOCAL_COUNT - 1, TRUE) = Returning(full, LOCAL_COUNT - 1)
      /\ add_upvalue(full, top, LOCAL_COUNT - 1, FALSE) =
           [full EXCEPT !.resolver_errors =
                          Append(@, "Too many closure variables in function."),
                        !.ret = 0]

\* C36: resolve_upvalue of a name declared by the immediately enclosing
\* function marks the local as captured and yields the descriptor (slot,
\* true); a name declared further out yields (index in the enclosing
\* function's list, false), the chain of descriptors ending at the declaring
\* local; a list holds no pair twice and at most 256 pairs; Closure fills the
\* closure's upvalues in the order of the descriptors, so that GetUpvalue(i)
\* reads the variable descriptor i names.
C36_UpvalueResolution ==
  /\ C36_WellFormed
  /\ parser.result = "Compiling" =>
       \A name \in C36_Asked :
         C36_Resolved(Tok("Identifier", name),
                      Compiler_resolve_upvalue(parser, Len(parser.compilers),
                                               Tok("Identifier", name)))
  /\ At("function_end") /\ Len(parser.compilers) >= 2 =>
       /\ C36_ClosureReads(Compiler(parser).function,
                           parser.compilers[Len(parser.compilers) - 1])
       /\ C36_AtLimit

\* C36 witness: the body of a function nested two deep is compiled; its
\* descriptor names an upvalue of the enclosing function, whose descriptor
\* names a captured local of the function around it.
C36_Witness ==
  /\ At("function_end")
  /\ Len(parser.compilers) >= 3
  /\ LET top == Len(parser.compilers)
     IN  /\ parser.compilers[top].function.upvalues = <<Upv(0, FALSE)>>
         /\ \E i \in DOMAIN parser.compilers[top - 1].function.upvalues :
              parser.compilers[top - 1].function.upvalues[i].is_local

(***************************************************************************)
(* C37. Compile errors leave the VM untouched.                             *)
(***************************************************************************)
\* A call of interpret that compile fails changes neither the value stack,
\* the frames, the open upvalues, the globals nor the output; the heap only
\* grows by what compile interned and allocated, every object staying.
C37_CompileErrorStep ==
  status' = "CompileError" /\ lines' # lines /\ ~reference'.on =>
    /\ stack' = stack
    /\ frames' = frames
    /\ open_upvalues' = open_upvalues
    /\ globals' = globals
    /\ out' = out
    /\ init_string' = init_string
    /\ Len(allocator'.objects) >= Len(allocator.objects)
    /\ \A i \in DOMAIN allocator.objects : allocator'.objects[i] = allocator.objects[i]

\* Once interpret has returned CompileError no instruction runs until the
\* next call of interpret.
C37_NothingRuns ==
  status = "CompileError" /\ lines' = lines /\ reference' = reference => UNCHANGED vm_vars

\* C37: when interpret fails with CompileError, the value stack, the frames,
\* the open-upvalue list and the globals are as they were before the call,
\* and no instruction of the rejected source is executed.
C37_CompileErrorsLeaveVm == [][C37_CompileErrorStep /\ C37_NothingRuns]_vars

\* C37 witness: the line "print ;" was rejected on a Vm that still holds the
\* frame and the stack of the line before it, which ended in a runtime error.
C37_Witness ==
  /\ lines = <<ProgId("P_undef_get"), ProgId("P_compile_error")>>
  /\ status = "CompileError"
  /\ Len(frames) = 1
  /\ Len(stack) = 1
  /\ out = <<>>

(***************************************************************************)
(* C38. Initializers return the receiver.                                  *)
(***************************************************************************)
\* Every Return of the code comes right after GetLocal(0).
C38_ReturnsSlotZero(code) ==
  \A i \in DOMAIN code :
    code[i].op = "Return" => i > 1 /\ code[i - 1] = I("GetLocal", 0, 0)

\* No instruction of the code stores to slot 0, and no jump lands on a
\* Return, past the GetLocal(0) before it.
C38_KeepsSlotZero(code) ==
  /\ \A i \in DOMAIN code : code[i].op = "SetLocal" => code[i].a # 0
  /\ \A pos \in C35_Jumps(code) \cup C35_Loops(code) :
       C35_Target(code, pos) < Len(code) =>
         code[C35_Target(code, pos) + 1].op # "Return"

\* The compilers of the parser that compile a method named init.
C38_Initializers(p) ==
  {c \in DOMAIN p.compilers : p.compilers[c].function_type = "Initializer"}

\* While an initializer is compiled: a Return that is not after GetLocal(0),
\* the return of a value, has been reported as an error.
C38_Compiling(p) ==
  \A c \in C38_Initializers(p) :
    /\ p.compilers[c].locals[1].name.lexeme = "this"
    /\ p.compilers[c].function.name = "init"
    /\ ~p.had_error => C38_ReturnsSlotZero(p.compilers[c].function.code)

\* Bound: the turns of Vm::run given to the call of an initializer.
C38_Turns == 40

C38_Args == {Nil, Bool(FALSE), Num(0), Num(1)}

RECURSIVE C38_Intern(_, _, _)
C38_Intern(vm, constants, i) ==
  IF i > Len(constants) THEN vm
  ELSE IF constants[i].c = "str" /\ constants[i].s \notin DOMAIN vm.a.strings
    THEN C38_Intern(InternAfterGc(vm, constants[i].s), constants, i + 1)
    ELSE C38_Intern(vm, constants, i + 1)

\* A Vm about to run Call(arity) on a class whose method init is the compiled
\* function fn: the class is at slot 1 of the script's frame, the arguments
\* above it.
C38_AtCall(fn, args) ==
  LET fresh == C38_Intern(VmNew(FALSE), fn.constants, 1)
      n == Len(fresh.a.objects)
      objects ==
        <<LoxFunction(fn.arity, [code |-> fn.code],
                      [j \in DOMAIN fn.constants |->
                         ResolveConstant(fresh.a, fn.constants[j], <<>>)],
                      fresh.init_string, fn.upvalues),
          Closure(n),
          [LoxClass(fresh.init_string) EXCEPT
             !.methods = TableInsert(@, fresh.init_string, Ref("Closure", n + 1))],
          LoxFunction(0, [code |-> <<>>], <<>>, 0, <<>>),
          Closure(n + 3)>>
  IN  [C36_AllocAll(fresh, objects, 1)
         EXCEPT !.frames = <<CallFrame(n + 4, 0)>>,
                !.stack = <<Ref("Function", n + 3), Ref("Class", n + 2)>> \o args,
                !.status = "Running"]

\* Vm::run from the call of the initializer until its frame returns.
RECURSIVE C38_RunInit(_, _)
C38_RunInit(vm, turns) ==
  IF turns = 0 \/ vm.status # "Running" \/ Len(vm.frames) < 2 THEN vm
  ELSE C38_RunInit(Execute(Advance(vm), Fetch(vm), 0), turns - 1)

\* Call on the class leaves the new Instance where the class was and in slot
\* 0 of the initializer's frame, and when the frame returns the Instance is
\* the result of the call.
C38_CallGivesInstance(fn, args) ==
  LET called == ExecCall(C38_AtCall(fn, args), fn.arity, 0)
      result == C38_RunInit(called, C38_Turns)
  IN  /\ called.status = "Running"
      /\ Len(called.frames) = 2
      /\ called.stack[2].k = "Instance"
      /\ current_frame(called).slot = 1
      /\ Deref(called, called.stack[2].h).class = C38_AtCall(fn, args).stack[2].h
      /\ result.status = "Running" /\ Len(result.frames) = 1 =>
           result.stack = <<called.stack[1], called.stack[2]>>

\* The call of the initializer fn returns for some arguments.
C38_Returns(fn) ==
  \E args \in [1..fn.arity -> C38_Args] :
    LET result == C38_RunInit(ExecCall(C38_AtCall(fn, args), fn.arity, 0), C38_Turns)
    IN  result.status = "Running" /\ Len(result.frames) = 1

\* The initializer has no function among its constants and captures nothing.
C38_Runnable(fn) ==
  /\ fn.upvalues = <<>>
  /\ \A j \in DOMAIN fn.constants : fn.constants[j].c # "fn"

\* The step that ends the body of a method named init.
C38_InitializerEnds ==
  /\ parser.result = "Compiling"
  /\ Len(parser'.compilers) = Len(parser.compilers) - 1
  /\ Compiler(parser).function_type = "Initializer"

C38_InitializerStep ==
  /\ C38_Compiling(parser')
  /\ C38_InitializerEnds =>
       LET fn == Last(parser'.fns)
       IN  /\ Len(parser'.fns) = Len(parser.fns) + 1
           /\ fn.name = "init"
           /\ C38_KeepsSlotZero(fn.code)
           /\ ~parser'.had_error =>
                /\ C38_ReturnsSlotZero(fn.code)
                /\ Len(fn.code) >= 2 /\ Last(fn.code).op = "Return"
                /\ C38_Runnable(fn) =>
                     \A args \in [1..fn.arity -> C38_Args] :
                       C38_CallGivesInstance(fn, args)
  /\ parser'.result = "Ok" => ~parser'.had_error

\* C38: every Return compiled in a method named init, the one at the end of
\* the body and the one of 'return;', comes after GetLocal(0); the return of
\* a value there is a compile error; nothing in the method stores to slot 0;
\* and a Call on a class with that method init leaves the new Instance as
\* the result of the call.
C38_InitializerReturnsReceiver == [][C38_InitializerStep]_vars

\* C38 witness: the method init(a, b) { a = b; if (a) return; b = a + 1; } is
\* compiled without error, with the Return of 'return;' and the one at the end
\* of the body, and its call returns.
C38_Witness ==
  /\ parser.result = "Compiling"
  /\ ~parser.had_error
  /\ parser.fns # <<>>
  /\ Last(parser.fns).name = "init"
  /\ Last(parser.fns).arity = 2
  /\ Len(parser.compilers) = 1
  /\ Cardinality({i \in DOMAIN Last(parser.fns).code :
                    Last(parser.fns).code[i].op = "Return"}) = 2
  /\ C38_Runnable(Last(parser.fns))
  /\ C38_Returns(Last(parser.fns))

(***************************************************************************)
(* C39. Allocator slot accounting.                                         *)
(***************************************************************************)
\* The sum of the sizes recorded in the headers of slots 1..n.
RECURSIVE C39_RecordedSizes(_, _)
C39_RecordedSizes(objects, n) ==
  IF n = 0 THEN 0 ELSE objects[n].size + C39_RecordedSizes(objects, n - 1)

\* The indices of the slots that hold the Empty placeholder.
C39_EmptySlots(a) == {i \in 0..(Len(a.objects) - 1) : a.objects[i + 1].obj.t = "Empty"}

\* free_slots holds every index once at most, and exactly the indices of the
\* Empty slots, whose header records no size; bytes_allocated is the sum of
\* the sizes recorded for the occupied slots.
C39_Accounting(a) ==
  /\ \A i, j \in DOMAIN a.free_slots : i # j => a.free_slots[i] # a.free_slots[j]
  /\ Range(a.free_slots) = C39_EmptySlots(a)
  /\ \A i \in C39_EmptySlots(a) : a.objects[i + 1].size = 0
  /\ \A i \in DOMAIN a.objects :
       a.objects[i].obj.t # "Empty" => a.objects[i].size >= HeaderSize
  /\ a.bytes_allocated >= 0
  /\ a.bytes_allocated = C39_RecordedSizes(a.objects, Len(a.objects))

\* No handle reachable from the roots of vm has its index in free_slots.
C39_RootsKept(vm) ==
  \A th \in Reachable(vm) : th[1] \notin Range(vm.a.free_slots)

\* alloc takes the last free slot, or a new one when there is none, and
\* keeps the accounting.
C39_AfterAlloc(a, object) ==
  /\ C39_Accounting(AllocatorAlloc(a, object))
  /\ AllocIndex(a) \notin Range(AllocatorAlloc(a, object).free_slots)
  /\ AllocatorAlloc(a, object).objects[AllocIndex(a) + 1].obj = object
  /\ a.free_slots # <<>> =>
       /\ Len(AllocatorAlloc(a, object).objects) = Len(a.objects)
       /\ AllocatorAlloc(a, object).free_slots = Front(a.free_slots)

\* A collection from the roots of vm that ends keeps the accounting and
\* frees nothing the roots reach.
C39_AfterCollect(vm) ==
  CollectGarbage(MarkRoots(vm)).done =>
    /\ C39_Accounting(CollectGarbage(MarkRoots(vm)).a)
    /\ C39_RootsKept([vm EXCEPT !.a = CollectGarbage(MarkRoots(vm)).a])
    /\ CollectGarbage(MarkRoots(vm)).a.bytes_allocated <= vm.a.bytes_allocated

\* C39: in every state free_slots holds each freed index once and exactly the
\* indices of the slots that hold Empty, no handle reachable from the roots
\* has its index there, and bytes_allocated is the sum of the recorded sizes
\* of the occupied slots; an alloc, an intern and a collection from that state
\* keep it so.
C39_SlotAccounting ==
  /\ C39_Accounting(allocator)
  /\ C39_RootsKept(VM)
  /\ C39_AfterAlloc(allocator, Instance(0))
  /\ C39_Accounting(AllocatorIntern(allocator, "init"))
  /\ C39_Accounting(AllocatorIntern(allocator, "a new string"))
  /\ status \in {"Running", "Ok", "RuntimeError", "CompileError"} => C39_AfterCollect(VM)

\* C39 witness: class A {} { var a = A(); var b = A(); var c = A(); }
\* var d = A(); print d; has run in the build that collects before every
\* alloc: the three instances of the block were freed together, the alloc of
\* the fourth took the last of their slots, and the two others are still
\* free (without collections the program ends with twelve slots).
C39_Witness ==
  /\ lines = <<ProgId("P_garbage")>>
  /\ stress
  /\ status = "Ok"
  /\ out = <<"A instance">>
  /\ Len(allocator.objects) = 11
  /\ allocator.free_slots = <<8, 9>>
  /\ allocator.objects[11].obj.t = "Instance"
  /\ allocator.bytes_allocated > 0

(***************************************************************************)
(* C40. Table probing terminates.                                          *)
(***************************************************************************)
\* The indices (1-based) of the entries that hold a key, of the tombstones,
\* and of the empty entries that were never used.
C40_Occupied(t) == {i \in DOMAIN t.entries : t.entries[i].key.some}

C40_Tombstones(t) ==
  {i \in DOMAIN t.entries : ~t.entries[i].key.some /\ t.entries[i].value # Nil}

C40_NeverUsed(t) ==
  {i \in DOMAIN t.entries : ~t.entries[i].key.some /\ t.entries[i].value = Nil}

\* The map the table holds: the value of every key id stored.
C40_Live(t) == {<<t.entries[i].key.v.id, t.entries[i].value>> : i \in C40_Occupied(t)}

\* count is the number of occupied entries and tombstones and within 3/4 of
\* the capacity, which leaves an entry that was never used in every table
\* that has entries; a table without entries has count 0 and is not probed.
C40_Counted(t) ==
  /\ ~t.hung
  /\ Len(t.entries) = t.capacity
  /\ t.count = Cardinality(C40_Occupied(t)) + Cardinality(C40_Tombstones(t))
  /\ t.count <= MaxLoad(t.capacity)
  /\ 4 * t.count <= 3 * t.capacity
  /\ t.capacity > 0 => C40_NeverUsed(t) # {}
  /\ t.capacity = 0 => t.count = 0

\* The probes of find_entry and find_string for key end, in the table and in
\* the table set has grown before it probes.
C40_ProbesEnd(t, key) ==
  /\ t.count > 0 =>
       /\ t.capacity > 0
       /\ find_entry(t.entries, t.capacity, key) # -1
       /\ ~find_string(t, key.id, key.hash).hung
  /\ ~TableGrown(t).hung
  /\ TableGrown(t).capacity > 0
  /\ find_entry(TableGrown(t).entries, TableGrown(t).capacity, key) # -1

\* adjust_capacity moves every live entry to the new array, drops the
\* tombstones and counts the live entries.
C40_Adjusted(t, capacity) ==
  /\ ~adjust_capacity(t, capacity).hung
  /\ adjust_capacity(t, capacity).capacity = capacity
  /\ Len(adjust_capacity(t, capacity).entries) = capacity
  /\ C40_Live(adjust_capacity(t, capacity)) = C40_Live(t)
  /\ C40_Tombstones(adjust_capacity(t, capacity)) = {}
  /\ Cardinality(C40_Occupied(adjust_capacity(t, capacity))) = Cardinality(C40_Occupied(t))
  /\ adjust_capacity(t, capacity).count = Cardinality(C40_Occupied(t))
  /\ \A key \in TableKeys :
       get(adjust_capacity(t, capacity), key) = get(t, key)

\* C40: after any sequence of set and delete, count is the number of occupied
\* entries plus tombstones and at most 3/4 of the capacity, so a table that
\* find_entry or find_string probes has an entry that was never used and the
\* probe ends; adjust_capacity, with the capacity set gives it, keeps every
\* live entry, drops the tombstones and sets count to the number of live
\* entries.
C40_ProbingTerminates ==
  /\ C40_Counted(table)
  /\ \A key \in TableKeys : C40_ProbesEnd(table, key)
  /\ C40_Adjusted(table, IF table.capacity < 8 THEN 8 ELSE table.capacity * 2)

\* C40 witness: the array has grown to 16 entries and the count is below the
\* 6 that made it grow, so the tombstones of the old array were dropped; it
\* holds three keys and two tombstones made since.
C40_Witness ==
  /\ table.capacity = 16
  /\ table.count = 5
  /\ Cardinality(C40_Tombstones(table)) = 2
  /\ Cardinality(C40_Occupied(table)) = 3
  /\ Cardinality(C40_NeverUsed(table)) = 11

====
